---- MODULE Spec2Model ----
(***************************************************************************)
(* Lead-nurturing follow-up sequencing and engagement gating.              *)
(*                                                                         *)
(* The repository holds several divergent SalesNurturer prototypes:        *)
(*   variant "A"  src/agents/sales_nurturer/main.py                        *)
(*   variant "B"  src/sales-nurturer/agents/sales_nurturer/main.py         *)
(*   variant "C"  src/src/sales_nurturer/sales_nurturer.py                 *)
(* and a stand-alone NurturePlanner (src/models/nurture_planner.py).       *)
(* Each is modelled under its own operator names (A_..., B_..., C_...).    *)
(*                                                                         *)
(* Time is counted in whole days.  A Python call either returns a value    *)
(* or raises; both outcomes are values of the model (Ret / Raise).         *)
(***************************************************************************)
EXTENDS Integers, Sequences, FiniteSets, TLC

VARIABLES
    skipCall,     \* one call of _should_skip: its inputs and its outcome
    planCall,     \* one call of a plan generator: its inputs and its outcome
    variant,      \* which SalesNurturer prototype is deployed ("A" or "B")
    clock,        \* the current time, in days
    subject,      \* the lead (and plan) the calls of a run are about
    leadStatus,   \* the lead's status in the lead store, as of now
    interactions, \* the interaction store
    jobs,         \* the scheduler's job store
    calls,        \* the calls of create_nurture_plan / _schedule_plan so far
    threads,      \* the invocations of the trigger handler so far
    nurture_plans,     \* variant C: SalesNurturer.nurture_plans, in order of creation
    engagement_events, \* variant C: EngagementTracker.engagement_events
    funCall,      \* one call of another function: its inputs and its outcome
    leads,             \* variant C: the Lead objects, by id (status and notes)
    notifier,          \* variant C: the notifier in use and its process's str hash
    sent_messages      \* variant C: the notifier's sent_messages dict

callVars == <<skipCall, planCall>>
nurtureVars == <<variant, clock, subject, leadStatus, interactions, jobs, calls, threads>>
coreVars == <<leads, notifier, sent_messages>>
trackerVars == <<nurture_plans, engagement_events, funCall, coreVars>>
vars == <<skipCall, planCall, variant, clock, subject, leadStatus, interactions, jobs,
          calls, threads, nurture_plans, engagement_events, funCall, leads, notifier,
          sent_messages>>

-----------------------------------------------------------------------------
(* Outcomes of a call *)

Ret(v) == [kind |-> "return", val |-> v]
Raise(e) == [kind |-> "raise", val |-> e]
Returned(r) == r.kind = "return"
Raised(r) == r.kind = "raise"
\* a call that has not ended
Pending == [kind |-> "pending", val |-> FALSE]

-----------------------------------------------------------------------------
(* Bounds of the model *)

\* the clock runs over 0..MaxNow (days)
MaxNow == 2
\* longest interaction history handed to the skip check
MaxHistory == 2

-----------------------------------------------------------------------------
(* engagement_config, identical in variants A and B *)

conversion_cooldown == 30
\* min_open_rate = 0.3 and min_reply_rate = 0.1, as tenths
min_open_rate_tenths == 3
min_reply_rate_tenths == 1

kw_unsubscribe == <<"u","n","s","u","b","s","c","r","i","b","e">>
kw_not_interested == <<"n","o","t"," ","i","n","t","e","r","e","s","t","e","d">>
kw_stop == <<"s","t","o","p">>
negative_keywords == <<kw_unsubscribe, kw_not_interested, kw_stop>>

-----------------------------------------------------------------------------
(* Values a lead dict holds under a date key.                              *)
(*   absent : the key is missing          none : the value is None         *)
(*   empty  : the empty string            bad  : a string that is no ISO   *)
(*   iso    : an ISO-format string        dt   : a datetime object         *)

DateVal(tag, t) == [tag |-> tag, t |-> t]
Absent == DateVal("absent", 0)
Truthy(d) == d.tag \in {"bad", "iso", "dt"}

\* str.lower() on one character: the 26 ASCII capitals go to lower case,
\* every other character the model uses stays as it is
UpperLetters ==
    <<"A", "B", "C", "D", "E", "F", "G", "H", "I", "J", "K", "L", "M",
      "N", "O", "P", "Q", "R", "S", "T", "U", "V", "W", "X", "Y", "Z">>
LowerLetters ==
    <<"a", "b", "c", "d", "e", "f", "g", "h", "i", "j", "k", "l", "m",
      "n", "o", "p", "q", "r", "s", "t", "u", "v", "w", "x", "y", "z">>
Lower(c) ==
    IF \E n \in 1..Len(UpperLetters) : UpperLetters[n] = c
    THEN LowerLetters[CHOOSE n \in 1..Len(UpperLetters) : UpperLetters[n] = c]
    ELSE c
LowerStr(s) == [i \in 1..Len(s) |-> Lower(s[i])]

\* Python's `kw in content` on strings: kw occurs as a contiguous substring
Contains(content, kw) ==
    \E i \in 0..(Len(content) - Len(kw)) :
        \A j \in 1..Len(kw) : content[i + j] = kw[j]

-----------------------------------------------------------------------------
(* Variant A: SalesNurturer._should_skip reads the lead dict only *)

A_should_skip(lead, now) ==
    IF lead.status = "unsubscribed" THEN Ret(TRUE)
    ELSE IF Truthy(lead.last_conversion)
    THEN CASE lead.last_conversion.tag = "bad" -> Raise("ValueError")
           [] lead.last_conversion.tag = "dt" -> Raise("TypeError")
           [] OTHER ->
                IF now - lead.last_conversion.t < conversion_cooldown
                THEN Ret(TRUE) ELSE Ret(FALSE)
    ELSE Ret(FALSE)

-----------------------------------------------------------------------------
(* Variant B: the skip check also reads the interaction store.  The store  *)
(* class of variant B (utils.storage under sales-nurturer/) is not in the  *)
(* source tree: a query returns the lead's interaction dicts, at most      *)
(* `limit` of them, or raises.                                             *)

B_VectorDB_query(store, lead_id, limit, ok) ==
    IF ~ok THEN Raise("QueryError")
    ELSE LET mine == SelectSeq(store, LAMBDA i : i.lead_id = lead_id)
         IN Ret(SubSeq(mine, 1, IF Len(mine) < limit THEN Len(mine) ELSE limit))

B_get_lead_interactions(store, lead_id, limit, ok) ==
    B_VectorDB_query(store, lead_id, limit, ok)

B_is_unsubscribed(lead) == lead.status = "unsubscribed"

B_recently_converted(lead, now) ==
    IF ~Truthy(lead.last_conversion) THEN Ret(FALSE)
    ELSE IF lead.last_conversion.tag # "dt" THEN Raise("TypeError")
    ELSE Ret(now - lead.last_conversion.t < conversion_cooldown)

\* Python's a / b on ints: the exact quotient, or ZeroDivisionError
PyTrueDiv(a, b) ==
    IF b = 0 THEN Raise("ZeroDivisionError") ELSE Ret([num |-> a, den |-> b])

\* rate >= tenths / 10
RateAtLeast(rate, tenths) == 10 * rate.num >= tenths * rate.den

\* the stats loop and the two rates of _meets_engagement
B_engagement_rates(found) ==
    LET sent == Len(found)
        opened == Cardinality({n \in 1..sent : found[n].opened})
        replied == Cardinality({n \in 1..sent : found[n].replied})
        open_rate == PyTrueDiv(opened, sent)
        reply_rate == PyTrueDiv(replied, sent)
    IN IF Raised(open_rate) THEN open_rate
       ELSE IF Raised(reply_rate) THEN reply_rate
       ELSE Ret(/\ RateAtLeast(open_rate.val, min_open_rate_tenths)
                /\ RateAtLeast(reply_rate.val, min_reply_rate_tenths))

\* _meets_engagement without its test for an empty history
B_meets_engagement_unguarded(store, lead_id, ok) ==
    LET q == B_get_lead_interactions(store, lead_id, 100, ok)
    IN IF Raised(q) THEN q ELSE B_engagement_rates(q.val)

B_meets_engagement(store, lead_id, ok) ==
    LET q == B_get_lead_interactions(store, lead_id, 100, ok)
    IN IF Raised(q) THEN q
       ELSE IF q.val = <<>> THEN Ret(FALSE)
       ELSE B_engagement_rates(q.val)

B_detected_negative(store, lead_id, ok) ==
    LET q == B_get_lead_interactions(store, lead_id, 5, ok)
    IN IF Raised(q) THEN q
       ELSE Ret(\E n \in 1..Len(q.val) :
                  \E k \in 1..Len(negative_keywords) :
                     Contains(LowerStr(q.val[n].content), negative_keywords[k]))

\* _should_skip up to and with its first query of the store, the one of
\* _meets_engagement: the call's outcome, or Pending when it goes on to the
\* query of _detected_negative
B_should_skip_to_engagement(lead, now, store, okEng) ==
    IF ~lead.has_id THEN Raise("KeyError")
    ELSE IF B_is_unsubscribed(lead) THEN Ret(TRUE)
    ELSE LET rc == B_recently_converted(lead, now)
         IN IF Raised(rc) THEN rc
            ELSE IF rc.val THEN Ret(TRUE)
            ELSE LET me == B_meets_engagement(store, lead.id, okEng)
                 IN IF Raised(me) THEN me
                    ELSE IF ~me.val THEN Ret(TRUE)
                    ELSE Pending

\* the rest of _should_skip: the second query of the store, on the store as
\* it is by then
B_should_skip_from_negative(lead, store, okNeg) ==
    LET dn == B_detected_negative(store, lead.id, okNeg)
    IN IF Raised(dn) THEN dn
       ELSE IF dn.val THEN Ret(TRUE)
       ELSE Ret(FALSE)

\* _should_skip(lead) when nothing writes to the store between its queries
B_should_skip(lead, now, store, okEng, okNeg) ==
    LET first == B_should_skip_to_engagement(lead, now, store, okEng)
    IN IF first # Pending THEN first
       ELSE B_should_skip_from_negative(lead, store, okNeg)

-----------------------------------------------------------------------------
(* Inputs of the skip check *)

NoCall == [variant |-> "none"]

\* the scheduling state of a run that only exercises one function call
NoNurture ==
    /\ variant = "none" /\ clock = 0 /\ subject = NoCall /\ leadStatus = "new"
    /\ interactions = <<>> /\ jobs = {} /\ calls = <<>> /\ threads = <<>>

\* variant C holds no plan and has tracked no event
NoCore == leads = <<>> /\ notifier = NoCall /\ sent_messages = <<>>
NoTracker == nurture_plans = <<>> /\ engagement_events = <<>> /\ NoCore

ConvAges == {conversion_cooldown - 1, conversion_cooldown}

ConversionVals(now) ==
    {Absent, DateVal("none", 0), DateVal("bad", 0)}
      \cup {DateVal(tg, now - a) : tg \in {"iso", "dt"}, a \in ConvAges}

SkipLeads(now) ==
    [id : {"L1"}, has_id : BOOLEAN, status : {"new", "unsubscribed"},
     last_conversion : ConversionVals(now), last_contact : {Absent}]

txt_ok == <<"o","k">>
txt_stop == <<"S","t","o","p">>
Contents == {txt_ok, txt_stop}

Interactions ==
    [lead_id : {"L1"}, opened : BOOLEAN, replied : BOOLEAN, content : Contents]
      \cup {[lead_id |-> "L2", opened |-> TRUE, replied |-> TRUE, content |-> txt_ok]}

RECURSIVE SeqsUpTo(_, _)
SeqsUpTo(S, n) ==
    IF n = 0 THEN {<<>>}
    ELSE LET shorter == SeqsUpTo(S, n - 1)
         IN shorter \cup {Append(q, x) : q \in {r \in shorter : Len(r) = n - 1}, x \in S}

\* the id a row is stored under
RowId(n) == "i" \o ToString(n)

\* the stores: every row under an id of its own
Stores ==
    {[n \in 1..Len(q) |->
        [id |-> RowId(n), lead_id |-> q[n].lead_id, opened |-> q[n].opened,
         replied |-> q[n].replied, content |-> q[n].content]] :
     q \in SeqsUpTo(Interactions, MaxHistory)}

\* the interaction history of a lead: the store's entries of that lead
History(store, lead_id) == SelectSeq(store, LAMBDA i : i.lead_id = lead_id)

InitSkip ==
    /\ \E now \in 0..MaxNow, v \in {"A", "B"} :
         \E lead \in SkipLeads(now), store \in Stores, okEng \in BOOLEAN, okNeg \in BOOLEAN :
            /\ v = "A" => (okEng /\ okNeg)
            /\ skipCall = [variant |-> v, lead |-> lead, now |-> now, store |-> store,
                           store_at_call |-> store, pc |-> "check",
                           okEng |-> okEng, okNeg |-> okNeg, result |-> Pending]
    /\ planCall = NoCall
    /\ NoNurture /\ NoTracker /\ funCall = NoCall

\* variant A: _should_skip(lead)
A_SkipCheck ==
    /\ skipCall.variant = "A" /\ skipCall.result = Pending
    /\ skipCall' = [skipCall EXCEPT !.result = A_should_skip(skipCall.lead, skipCall.now)]
    /\ UNCHANGED <<planCall, nurtureVars, trackerVars>>

\* variant B: _should_skip(lead), up to its next query of the store: the
\* call ends at the first query, that of _meets_engagement, or goes on to
\* the second, that of _detected_negative, which reads the store as it is
\* by then
B_SkipCheck ==
    /\ skipCall.variant = "B" /\ skipCall.result = Pending
    /\ skipCall' =
          IF skipCall.pc = "check"
          THEN LET first == B_should_skip_to_engagement(skipCall.lead, skipCall.now,
                                                        skipCall.store, skipCall.okEng)
               IN IF first = Pending THEN [skipCall EXCEPT !.pc = "negative"]
                  ELSE [skipCall EXCEPT !.result = first]
          ELSE [skipCall EXCEPT !.result =
                   B_should_skip_from_negative(skipCall.lead, skipCall.store,
                                               skipCall.okNeg)]
    /\ UNCHANGED <<planCall, nurtureVars, trackerVars>>

-----------------------------------------------------------------------------
(* C1 *)

SkipDone == skipCall.variant \in {"A", "B"} /\ skipCall.result # Pending
\* the lead has no history, at the call and at its end
ZeroHistory ==
    /\ History(skipCall.store_at_call, skipCall.lead.id) = <<>>
    /\ History(skipCall.store, skipCall.lead.id) = <<>>

\* the lead dict says unsubscribed, or converted less than the cooldown ago
UnsubOrCooling(lead, now) ==
    \/ lead.status = "unsubscribed"
    \/ /\ lead.last_conversion.tag \in {"iso", "dt"}
       /\ now - lead.last_conversion.t < conversion_cooldown

\* C1: for every lead with zero interaction history, should_skip returns
\* true if and only if the lead is unsubscribed or converted within the
\* cooldown window (never because of the engagement thresholds).
C1_ZeroHistorySkipIffUnsubOrCooldown ==
    (SkipDone /\ ZeroHistory /\ Returned(skipCall.result))
        => (skipCall.result.val <=> UnsubOrCooling(skipCall.lead, skipCall.now))

-----------------------------------------------------------------------------
(* Plans.  A plan object is what the text-generation chain hands back      *)
(* after JSON parsing: a dict (or not), keys present or missing.  In       *)
(* variant B the step keys are days_after_previous and template_name; the  *)
(* model keeps them in the fields days_after and template.                 *)

\* len(plan["steps"]) > 5 is rejected by NurturePlanner._validate_plan
plan_step_cap == 5
\* the fallback step's delay in days
fallback_days_after == 7
\* variant C spaces follow-ups (i + 1) * 3 days apart
followup_spacing_days == 3
\* longest step list the text-generation service hands back in the model
MaxGenSteps == 6

Step(d, ch, t) ==
    [has_days_after |-> TRUE, has_channel |-> TRUE, has_template |-> TRUE,
     days_after |-> d, channel |-> ch, template |-> t]

Plan(strategy, steps) ==
    [isdict |-> TRUE, has_strategy |-> TRUE, has_steps |-> TRUE,
     strategy |-> strategy, steps |-> steps]

StepHasAll(st) == st.has_days_after /\ st.has_channel /\ st.has_template

\* NurturePlanner._get_fallback_plan
NurturePlanner_get_fallback_plan ==
    Plan("conservative", <<Step(fallback_days_after, "email", "general_followup")>>)

\* variant A: SalesNurturer._get_fallback_plan
A_get_fallback_plan ==
    Plan("conservative", <<Step(fallback_days_after, "email", "general_followup")>>)

\* variant B: the literal returned by the except branch of _generate_plan
B_fallback_plan ==
    Plan("conservative", <<Step(fallback_days_after, "email", "default_followup")>>)

\* NurturePlanner._validate_plan: None on success, ValueError otherwise
NurturePlanner_validate_plan(plan) ==
    IF ~plan.isdict THEN Raise("ValueError")
    ELSE IF ~plan.has_steps THEN Raise("ValueError")
    ELSE IF Len(plan.steps) > plan_step_cap THEN Raise("ValueError")
    ELSE IF \E n \in 1..Len(plan.steps) : ~StepHasAll(plan.steps[n])
    THEN Raise("ValueError")
    ELSE Ret("None")

\* NurturePlanner.generate_plan(context); llm is the outcome of chain.invoke
NurturePlanner_generate_plan(context, llm) ==
    IF ~context.keys_ok THEN Ret(NurturePlanner_get_fallback_plan)
    ELSE IF Raised(llm) THEN Ret(NurturePlanner_get_fallback_plan)
    ELSE IF Raised(NurturePlanner_validate_plan(llm.val))
    THEN Ret(NurturePlanner_get_fallback_plan)
    \* the log line calls context['lead_details'].get('name')
    ELSE IF ~context.lead_details_is_dict THEN Ret(NurturePlanner_get_fallback_plan)
    ELSE Ret(llm.val)

-----------------------------------------------------------------------------
(* VectorDB of src/utils/storage.py, the store of variant A.  query takes  *)
(* query_text as a required positional parameter; chroma is the outcome    *)
(* of the underlying collection query.                                     *)

VectorDB_query(has_query_text, chroma) ==
    IF ~has_query_text THEN Raise("TypeError")
    ELSE IF Raised(chroma) THEN Raise("QueryError")
    ELSE Ret(chroma.val)

\* json.dumps(lead) fails on a datetime value
Dumpable(lead) == lead.last_conversion.tag # "dt" /\ lead.last_contact.tag # "dt"

\* variant A: _get_interaction_summary calls query without query_text
A_get_interaction_summary(lead_id, chroma) == VectorDB_query(FALSE, chroma)

\* variant A: _get_template_list calls query with query_text=""
A_get_template_list(chroma) == VectorDB_query(TRUE, chroma)

\* variant A: _generate_plan(lead)
A_generate_plan(lead, chroma, llm) ==
    IF ~Dumpable(lead) THEN Ret(A_get_fallback_plan)
    ELSE IF ~lead.has_id THEN Ret(A_get_fallback_plan)
    ELSE IF Raised(A_get_interaction_summary(lead.id, chroma)) THEN Ret(A_get_fallback_plan)
    ELSE IF Raised(A_get_template_list(chroma)) THEN Ret(A_get_fallback_plan)
    ELSE IF Raised(llm) THEN Ret(A_get_fallback_plan)
    ELSE IF ~llm.val.isdict THEN Ret(A_get_fallback_plan)
    ELSE IF ~(llm.val.has_strategy /\ llm.val.has_steps) THEN Ret(A_get_fallback_plan)
    ELSE Ret(llm.val)

\* variant B never imports json: json.dumps raises NameError
B_json_dumps(obj) == Raise("NameError")

\* variant B never imports JsonOutputParser either
B_JsonOutputParser == Raise("NameError")

\* variant B: _generate_plan(lead)
B_generate_plan(lead, store, ok, llm) ==
    IF ~lead.has_id THEN Ret(B_fallback_plan)
    ELSE IF Raised(B_get_lead_interactions(store, lead.id, 100, ok)) THEN Ret(B_fallback_plan)
    ELSE IF Raised(B_json_dumps(lead)) THEN Ret(B_fallback_plan)
    ELSE IF Raised(B_JsonOutputParser) THEN Ret(B_fallback_plan)
    ELSE IF Raised(llm) THEN Ret(B_fallback_plan)
    ELSE IF ~llm.val.isdict THEN Ret(B_fallback_plan)
    ELSE IF ~llm.val.has_steps THEN Ret(B_fallback_plan)
    ELSE Ret(llm.val)

\* a plan builder that gives every follow-up the same delay
C_create_nurture_plan_flat(lead, templates, now) ==
    Ret([lead_id |-> lead.id, status |-> "active",
         follow_ups |-> [i \in 1..Len(templates) |->
              [template |-> templates[i], status |-> "scheduled",
               scheduled_time |-> now + followup_spacing_days]]])

\* variant C: create_nurture_plan(lead, templates), one follow-up per
\* template, the i-th (from 1) scheduled 3 * i days after now
C_create_nurture_plan(lead, templates, now) ==
    Ret([lead_id |-> lead.id, status |-> "active",
         follow_ups |-> [i \in 1..Len(templates) |->
              [template |-> templates[i], status |-> "scheduled",
               scheduled_time |-> now + i * followup_spacing_days]]])

-----------------------------------------------------------------------------
(* Inputs of plan generation *)

GoodStep == Step(1, "email", "t1")
BadSteps ==
    {[GoodStep EXCEPT !.has_days_after = FALSE],
     [GoodStep EXCEPT !.has_channel = FALSE],
     [GoodStep EXCEPT !.has_template = FALSE]}

\* n good steps, or n - 1 good steps and a last one that misses a key
StepLists ==
    {[i \in 1..n |-> GoodStep] : n \in 0..MaxGenSteps}
      \cup {[i \in 1..n |-> IF i = n THEN b ELSE GoodStep] :
               n \in 1..MaxGenSteps, b \in BadSteps}

PlanObjs ==
    {[isdict |-> FALSE, has_strategy |-> FALSE, has_steps |-> FALSE,
      strategy |-> "none", steps |-> <<>>]}
      \cup {[isdict |-> TRUE, has_strategy |-> hs, has_steps |-> TRUE,
              strategy |-> "moderate", steps |-> sl] : hs \in BOOLEAN, sl \in StepLists}
      \cup {[isdict |-> TRUE, has_strategy |-> hs, has_steps |-> FALSE,
              strategy |-> "moderate", steps |-> <<>>] : hs \in BOOLEAN}

LLMOutcomes == {Raise("LLMError")} \cup {Ret(o) : o \in PlanObjs}
ChromaOutcomes == {Raise("ChromaError"), Ret(<<>>)}
Contexts == [keys_ok : BOOLEAN, lead_details_is_dict : BOOLEAN]
GenLeads ==
    [id : {"L1"}, has_id : BOOLEAN, status : {"new"},
     last_conversion : {Absent, DateVal("dt", 0)}, last_contact : {Absent}]
TemplateLists == {[i \in 1..n |-> "t1"] : n \in 0..MaxGenSteps}

PlanCallOf(v, ctx, lead, chroma, ok, llm, tpl) ==
    [variant |-> v, context |-> ctx, lead |-> lead, chroma |-> chroma, ok |-> ok,
     llm |-> llm, templates |-> tpl, result |-> Pending]

DefaultContext == [keys_ok |-> TRUE, lead_details_is_dict |-> TRUE]
DefaultLead ==
    [id |-> "L1", has_id |-> TRUE, status |-> "new",
     last_conversion |-> Absent, last_contact |-> Absent]

InitPlan ==
    /\ skipCall = NoCall
    /\ NoNurture /\ NoTracker /\ funCall = NoCall
    /\ \/ \E ctx \in Contexts, llm \in LLMOutcomes :
            planCall = PlanCallOf("P", ctx, DefaultLead, Ret(<<>>), TRUE, llm, <<>>)
       \/ \E lead \in GenLeads, ch \in ChromaOutcomes, llm \in LLMOutcomes :
            planCall = PlanCallOf("A", DefaultContext, lead, ch, TRUE, llm, <<>>)
       \/ \E lead \in GenLeads, ok \in BOOLEAN, llm \in LLMOutcomes :
            planCall = PlanCallOf("B", DefaultContext, lead, Ret(<<>>), ok, llm, <<>>)
       \/ \E tpl \in TemplateLists :
            planCall = PlanCallOf("C", DefaultContext, DefaultLead, Ret(<<>>), TRUE,
                                  Raise("LLMError"), tpl)

PlanPending(v) == planCall.variant = v /\ planCall.result = Pending

P_GeneratePlan ==
    /\ PlanPending("P")
    /\ planCall' = [planCall EXCEPT !.result =
            NurturePlanner_generate_plan(planCall.context, planCall.llm)]
    /\ UNCHANGED <<skipCall, nurtureVars, trackerVars>>

A_GeneratePlan ==
    /\ PlanPending("A")
    /\ planCall' = [planCall EXCEPT !.result =
            A_generate_plan(planCall.lead, planCall.chroma, planCall.llm)]
    /\ UNCHANGED <<skipCall, nurtureVars, trackerVars>>

B_GeneratePlan ==
    /\ PlanPending("B")
    /\ planCall' = [planCall EXCEPT !.result =
            B_generate_plan(planCall.lead, <<>>, planCall.ok, planCall.llm)]
    /\ UNCHANGED <<skipCall, nurtureVars, trackerVars>>

\* create_nurture_plan(lead, templates): the plan is returned and stored in
\* self.nurture_plans under its id
C_CreateNurturePlan ==
    /\ PlanPending("C")
    /\ LET out == C_create_nurture_plan(planCall.lead, planCall.templates, 0)
           pid == "plan_" \o ToString(Len(nurture_plans) + 1)
       IN /\ planCall' = [planCall EXCEPT !.result = out]
          /\ nurture_plans' = Append(nurture_plans,
                 [id |-> pid, lead_id |-> out.val.lead_id,
                  status |-> out.val.status, follow_ups |-> out.val.follow_ups])
    /\ UNCHANGED <<skipCall, nurtureVars, engagement_events, funCall, coreVars>>

NextPlan == P_GeneratePlan \/ A_GeneratePlan \/ B_GeneratePlan \/ C_CreateNurturePlan

SpecPlan == InitPlan /\ [][NextPlan]_vars

PlanDone(v) == planCall.variant = v /\ planCall.result # Pending

-----------------------------------------------------------------------------
(* C6 - C9: plan generation *)

StepCountOk(n) == 1 <= n /\ n <= plan_step_cap

\* C6: every plan that reaches scheduling has between 1 and 5 steps; a
\* plan with zero steps or more than 5 steps is rejected before any of its
\* steps is scheduled.
C6_ScheduledPlanHasOneToFiveSteps ==
    /\ \A v \in {"A", "B"} :
          (PlanDone(v) /\ Returned(planCall.result))
              => StepCountOk(Len(planCall.result.val.steps))
    /\ (PlanDone("C") /\ Returned(planCall.result))
          => StepCountOk(Len(planCall.result.val.follow_ups))

\* the checks the specification lists for the object the service returns
PassesListedChecks(o) ==
    /\ o.isdict /\ o.has_strategy /\ o.has_steps
    /\ Len(o.steps) <= plan_step_cap
    /\ \A n \in 1..Len(o.steps) : StepHasAll(o.steps[n])

FallbackOf(v) ==
    CASE v = "P" -> NurturePlanner_get_fallback_plan
      [] v = "A" -> A_get_fallback_plan
      [] OTHER -> B_fallback_plan

\* nothing but the returned object can make this call fall back
OtherInputsFine ==
    /\ planCall.context.keys_ok /\ planCall.context.lead_details_is_dict
    /\ planCall.lead.has_id /\ Dumpable(planCall.lead)
    /\ Returned(planCall.chroma) /\ planCall.ok

\* C7: plan generation returns the fallback plan whenever the object the
\* text-generation service returns lacks 'strategy' or 'steps', has more
\* than 5 steps or has a step missing 'days_after', 'channel' or
\* 'template'; an object passing all these checks is returned as the plan.
C7_FallbackIffListedCheckFails ==
    \A v \in {"P", "A"} :
        (PlanDone(v) /\ Returned(planCall.llm) /\ OtherInputsFine)
            => /\ Returned(planCall.result)
               /\ planCall.result.val =
                    (IF PassesListedChecks(planCall.llm.val)
                     THEN planCall.llm.val ELSE FallbackOf(v))

GeneralFollowupPlan ==
    Plan("conservative", <<Step(7, "email", "general_followup")>>)

\* C8: the fallback plan is always the same single-step plan: strategy
\* 'conservative', one step 7 days after the previous contact, channel
\* 'email', template 'general_followup'.
C8_FallbackIsGeneralFollowup ==
    \A v \in {"P", "A", "B"} :
        (PlanDone(v) /\ Raised(planCall.llm))
            => (Returned(planCall.result) /\ planCall.result.val = GeneralFollowupPlan)

\* a malformed result: an object that fails a check of the specification's
\* list, or that holds no step
Malformed(o) == ~PassesListedChecks(o) \/ o.steps = <<>>

\* a failure inside generation, read off the inputs of the call: a service
\* error, a malformed result, a missing context or lead key, or a failing
\* query of the store
GenerationFails ==
    \/ Raised(planCall.llm)
    \/ Returned(planCall.llm) /\ Malformed(planCall.llm.val)
    \/ ~planCall.context.keys_ok
    \/ ~planCall.lead.has_id
    \/ Raised(planCall.chroma)
    \/ ~planCall.ok

\* C9: plan generation never propagates an error to its caller: for every
\* failure inside generation (service error, malformed result, missing
\* context or lead key, store query failure) it returns the fallback plan.
C9_GenerationNeverRaises ==
    \A v \in {"P", "A", "B"} :
        PlanDone(v) =>
            /\ Returned(planCall.result)
            /\ GenerationFails => planCall.result.val = FallbackOf(v)

\* the part of C9 about errors alone: no call of a generator ends in an
\* exception
C9_NoErrorReachesCaller ==
    \A v \in {"P", "A", "B"} : PlanDone(v) => Returned(planCall.result)

-----------------------------------------------------------------------------
(* Scheduling: _schedule_plan / _schedule_step and the job store.          *)
(* A job is a record [id, lead, step, run_date]; lead and step are the     *)
(* call's arguments as they were when the job was added (the job store is  *)
(* an SQLAlchemyJobStore, which serialises them).                          *)

\* longest plan handed to _schedule_plan directly
MaxSchedSteps == 2
\* how many times a run calls _schedule_plan / create_nurture_plan
MaxCalls == 2

\* f"{lead['id']}_{step['template']}_{trigger_date.timestamp()}"
JobId(lead_id, template, ts) == lead_id \o "_" \o template \o "_" \o ToString(ts)

JobIds(js) == {j.id : j \in js}

\* BackgroundScheduler.add_job on a running scheduler: the job goes to the
\* store at once; an id already there is replaced if replace_existing
\* and is a ConflictingIdError otherwise
BackgroundScheduler_add_job(js, job, replace_existing) ==
    IF job.id \in JobIds(js)
    THEN IF replace_existing
         THEN Ret({j \in js : j.id # job.id} \cup {job})
         ELSE Raise("ConflictingIdError")
    ELSE Ret(js \cup {job})

\* utils/scheduler.py: Scheduler.add_job passes replace_existing (default
\* True) and re-raises what the library raises
Scheduler_add_job(js, job, replace_existing) ==
    BackgroundScheduler_add_job(js, job, replace_existing)

SchedOut(res, js, ids, times) == [res |-> res, jobs |-> js, ids |-> ids, times |-> times]

\* a seed that ignores last_contact
A_schedule_seed_now(lead, now) == Ret(now)

\* variant A: datetime.fromisoformat(lead.get('last_contact', now.isoformat()))
A_schedule_seed(lead, now) ==
    CASE lead.last_contact.tag = "absent" -> Ret(now)
      [] lead.last_contact.tag = "iso" -> Ret(lead.last_contact.t)
      [] lead.last_contact.tag \in {"bad", "empty"} -> Raise("ValueError")
      [] OTHER -> Raise("TypeError")

\* variant B: _parse_date(lead.get('last_contact'))
B_parse_date(d, now) ==
    CASE d.tag \in {"absent", "none", "empty"} -> Ret(now)
      [] d.tag = "iso" -> Ret(d.t)
      [] d.tag = "bad" -> Ret(now)
      [] OTHER -> Raise("TypeError")

\* _schedule_step(lead, step, trigger_date), the same in variants A and B
\* up to the name of the template key; add_job is called without
\* replace_existing
schedule_step(js, lead, step, trigger) ==
    IF ~lead.has_id \/ ~step.has_template
    THEN [res |-> Raise("KeyError"), jobs |-> js, id |-> "none"]
    ELSE LET id == JobId(lead.id, step.template, trigger)
             job == [id |-> id, lead |-> lead, step |-> step, run_date |-> trigger]
             added == BackgroundScheduler_add_job(js, job, FALSE)
         IN IF Raised(added)
            THEN [res |-> added, jobs |-> js, id |-> id]
            ELSE [res |-> Ret(id), jobs |-> added.val, id |-> id]

LoopOut(res, js, ids, times, last) ==
    [res |-> res, jobs |-> js, ids |-> ids, times |-> times, last |-> last]

\* a loop body that leaves last_date at the seed
schedule_iteration_from_seed(js, lead, step, last, ids, times) ==
    IF ~step.has_days_after THEN LoopOut(Raise("KeyError"), js, ids, times, last)
    ELSE LET trigger == last + step.days_after
             one == schedule_step(js, lead, step, trigger)
         IN IF one.res = Raise("KeyError")
            THEN LoopOut(one.res, js, ids, times, last)
            ELSE IF Raised(one.res)
            THEN LoopOut(one.res, js, Append(ids, one.id), Append(times, trigger), last)
            ELSE LoopOut(Pending, one.jobs, Append(ids, one.id), Append(times, trigger),
                         last)

\* one pass of the body of the for loop of _schedule_plan: the trigger date,
\* _schedule_step, and last_date = trigger_date
schedule_iteration(js, lead, step, last, ids, times) ==
    IF ~step.has_days_after THEN LoopOut(Raise("KeyError"), js, ids, times, last)
    ELSE LET trigger == last + step.days_after
             one == schedule_step(js, lead, step, trigger)
         IN IF one.res = Raise("KeyError")
            THEN LoopOut(one.res, js, ids, times, last)
            ELSE IF Raised(one.res)
            THEN LoopOut(one.res, js, Append(ids, one.id), Append(times, trigger), last)
            ELSE LoopOut(Pending, one.jobs, Append(ids, one.id), Append(times, trigger),
                         trigger)

\* the for loop of _schedule_plan, run with no other thread in between
RECURSIVE schedule_loop(_, _, _, _, _, _)
schedule_loop(js, lead, steps, last, ids, times) ==
    IF steps = <<>> THEN SchedOut(Ret("None"), js, ids, times)
    ELSE LET it == schedule_iteration(js, lead, Head(steps), last, ids, times)
         IN IF Raised(it.res) THEN SchedOut(it.res, it.jobs, it.ids, it.times)
            ELSE schedule_loop(it.jobs, lead, Tail(steps), it.last, it.ids, it.times)

\* where a call of _schedule_plan stands after one more pass of its loop:
\* the steps still to schedule and last_date, or its outcome when the loop
\* has ended
Progress(res, js, ids, times, todo, last) ==
    [res |-> res, jobs |-> js, ids |-> ids, times |-> times, todo |-> todo, last |-> last]

schedule_pass(js, lead, steps, last, ids, times) ==
    IF steps = <<>> THEN Progress(Ret("None"), js, ids, times, <<>>, last)
    ELSE LET it == schedule_iteration(js, lead, Head(steps), last, ids, times)
         IN IF Raised(it.res)
            THEN Progress(it.res, it.jobs, it.ids, it.times, <<>>, it.last)
            ELSE IF Tail(steps) = <<>>
            THEN Progress(Ret("None"), it.jobs, it.ids, it.times, <<>>, it.last)
            ELSE Progress(Pending, it.jobs, it.ids, it.times, Tail(steps), it.last)

\* _schedule_plan up to the end of the first pass of its loop
schedule_begin(v, js, lead, plan, now) ==
    LET seed == IF v = "A" THEN A_schedule_seed(lead, now)
                ELSE B_parse_date(lead.last_contact, now)
    IN IF Raised(seed) THEN Progress(seed, js, <<>>, <<>>, <<>>, now)
       ELSE IF ~plan.has_steps THEN Progress(Raise("KeyError"), js, <<>>, <<>>, <<>>, now)
       ELSE schedule_pass(js, lead, plan.steps, seed.val, <<>>, <<>>)

\* variant A: _schedule_plan(lead, plan)
A_schedule_plan(js, lead, plan, now) ==
    LET seed == A_schedule_seed(lead, now)
    IN IF Raised(seed) THEN SchedOut(seed, js, <<>>, <<>>)
       ELSE IF ~plan.has_steps THEN SchedOut(Raise("KeyError"), js, <<>>, <<>>)
       ELSE schedule_loop(js, lead, plan.steps, seed.val, <<>>, <<>>)

\* variant B: _schedule_plan(lead, plan)
B_schedule_plan(js, lead, plan, now) ==
    LET seed == B_parse_date(lead.last_contact, now)
    IN IF Raised(seed) THEN SchedOut(seed, js, <<>>, <<>>)
       ELSE IF ~plan.has_steps THEN SchedOut(Raise("KeyError"), js, <<>>, <<>>)
       ELSE schedule_loop(js, lead, plan.steps, seed.val, <<>>, <<>>)

schedule_plan(v, js, lead, plan, now) ==
    IF v = "A" THEN A_schedule_plan(js, lead, plan, now)
    ELSE B_schedule_plan(js, lead, plan, now)

-----------------------------------------------------------------------------
(* Runs that call _schedule_plan on one (lead, plan) several times *)

SchedLeads ==
    [id : {"L1"}, has_id : {TRUE}, status : {"new"}, last_conversion : {Absent},
     last_contact : {Absent, DateVal("none", 0), DateVal("bad", 0), DateVal("iso", 0)}]

SchedSteps == {Step(0, "email", "t1"), Step(1, "email", "t2"), Step(0 - 1, "email", "t2")}

SchedPlans ==
    {Plan("moderate", sl) : sl \in SeqsUpTo(SchedSteps, MaxSchedSteps)}
      \cup {A_get_fallback_plan}

\* a call of the nurturer: its arguments, its outcome (Pending while its
\* scheduling loop runs), the job ids and trigger times it computed, and the
\* loop's remaining steps and last_date
CallRecord(op, at, lead, skip, plan, out) ==
    [op |-> op, at |-> at, lead |-> lead, skip |-> skip, plan |-> plan,
     res |-> out.res, ids |-> out.ids, times |-> out.times,
     todo |-> <<>>, last |-> 0]

InitSchedule ==
    /\ skipCall = NoCall /\ planCall = NoCall /\ funCall = NoCall /\ NoTracker
    /\ variant \in {"A", "B"}
    /\ clock = 0
    /\ \E lead \in SchedLeads, plan \in SchedPlans : subject = [lead |-> lead, plan |-> plan]
    /\ leadStatus = "new" /\ interactions = <<>>
    /\ jobs = {} /\ calls = <<>> /\ threads = <<>>

\* a day passes
Tick ==
    /\ clock < MaxNow
    /\ clock' = clock + 1
    /\ UNCHANGED <<callVars, trackerVars, variant, subject, leadStatus, interactions, jobs, calls, threads>>

\* _schedule_plan(lead, plan) is called on the run's lead and plan: the seed
\* and the first pass of the loop.  The nurturer's caller is one thread, so a
\* call starts when the one before it has ended; the scheduler's thread and
\* the job store's other users run between two passes
SchedulePlanCall ==
    /\ Len(calls) < MaxCalls
    /\ \A c \in 1..Len(calls) : calls[c].res # Pending
    /\ LET out == schedule_begin(variant, jobs, subject.lead, subject.plan, clock)
       IN /\ jobs' = out.jobs
          /\ calls' = Append(calls,
                [CallRecord("schedule", clock, subject.lead, Ret(FALSE), subject.plan, out)
                    EXCEPT !.todo = out.todo, !.last = out.last])
    /\ UNCHANGED <<callVars, trackerVars, variant, clock, subject, leadStatus, interactions, threads>>

\* the next pass of the loop of a call of _schedule_plan that is under way
SchedulePlanStep ==
    /\ \E c \in 1..Len(calls) :
          /\ calls[c].op = "schedule" /\ calls[c].res = Pending
          /\ LET out == schedule_pass(jobs, calls[c].lead, calls[c].todo, calls[c].last,
                                      calls[c].ids, calls[c].times)
             IN /\ jobs' = out.jobs
                /\ calls' = [calls EXCEPT ![c] =
                      [@ EXCEPT !.res = out.res, !.ids = out.ids, !.times = out.times,
                                !.todo = out.todo, !.last = out.last]]
    /\ UNCHANGED <<callVars, trackerVars, variant, clock, subject, leadStatus, interactions, threads>>

\* utils/scheduler.py shares the job store (sqlite:///data/scheduler.db).
\* The module annotates list_jobs with List and never imports it: where
\* annotations are evaluated at definition the import ends in NameError and
\* none of the wrapper's operations can happen (SpecSchedule); where they are
\* evaluated lazily the operations below act on the store (SpecJobStore).
\* BackgroundScheduler.remove_job, modify_job and reschedule_job raise
\* JobLookupError for an id the store does not hold; the wrapper turns any
\* exception into False
Scheduler_cancel_job(js, job_id) ==
    IF job_id \notin JobIds(js) THEN [res |-> Ret(FALSE), jobs |-> js]
    ELSE [res |-> Ret(TRUE), jobs |-> {j \in js : j.id # job_id}]

\* modify_job(job_id, **changes): next_run_time moves the run; the library
\* refuses a change of the id (ValueError) and an attribute a job does not
\* have (AttributeError)
Scheduler_modify_job(js, job_id, field, value) ==
    IF job_id \notin JobIds(js) \/ field # "next_run_time"
    THEN [res |-> Ret(FALSE), jobs |-> js]
    ELSE [res |-> Ret(TRUE),
          jobs |-> {IF j.id = job_id THEN [j EXCEPT !.run_date = value] ELSE j :
                    j \in js}]

\* reschedule_job(job_id, trigger_type, **trigger_args): a new date trigger
\* gives the job its run_date; an unknown trigger type is a LookupError
Scheduler_reschedule_job(js, job_id, trigger_type, run_date) ==
    IF job_id \notin JobIds(js) \/ trigger_type # "date"
    THEN [res |-> Ret(FALSE), jobs |-> js]
    ELSE [res |-> Ret(TRUE),
          jobs |-> {IF j.id = job_id THEN [j EXCEPT !.run_date = run_date] ELSE j :
                    j \in js}]

\* the job ids an operator of the store may name
KnownJobIds == JobIds(jobs) \cup {"L1_t9_0"}

\* Scheduler.add_job of utils/scheduler.py submits a pending job's id again,
\* to run today
SchedulerResubmit ==
    /\ \E j \in jobs :
          /\ j.run_date # clock
          /\ jobs' = Scheduler_add_job(jobs, [j EXCEPT !.run_date = clock], TRUE).val
    /\ UNCHANGED <<callVars, trackerVars, variant, clock, subject, leadStatus, interactions, calls, threads>>

\* cancel_job, modify_job and reschedule_job on a job id, the last two moving
\* the job to today
SchedulerCancel ==
    /\ \E id \in KnownJobIds : jobs' = Scheduler_cancel_job(jobs, id).jobs
    /\ UNCHANGED <<callVars, trackerVars, variant, clock, subject, leadStatus, interactions, calls, threads>>

SchedulerModify ==
    /\ \E id \in KnownJobIds, field \in {"next_run_time", "id", "colour"} :
          jobs' = Scheduler_modify_job(jobs, id, field, clock).jobs
    /\ UNCHANGED <<callVars, trackerVars, variant, clock, subject, leadStatus, interactions, calls, threads>>

SchedulerReschedule ==
    /\ \E id \in KnownJobIds, tt \in {"date", "weekly"} :
          jobs' = Scheduler_reschedule_job(jobs, id, tt, clock).jobs
    /\ UNCHANGED <<callVars, trackerVars, variant, clock, subject, leadStatus, interactions, calls, threads>>

\* the nurturer's scheduling on its own
NextSchedule == Tick \/ SchedulePlanCall \/ SchedulePlanStep

SpecSchedule == InitSchedule /\ [][NextSchedule]_vars

\* the nurturer's scheduling and the job store's other user
NextJobStore ==
    \/ Tick \/ SchedulePlanCall \/ SchedulePlanStep
    \/ SchedulerResubmit \/ SchedulerCancel \/ SchedulerModify \/ SchedulerReschedule

SpecJobStore == InitSchedule /\ [][NextJobStore]_vars

-----------------------------------------------------------------------------
(* C4, C5 *)

Min(a, b) == IF a < b THEN a ELSE b

\* C4 as stated: any two schedulings of the same (lead, plan) compute the
\* same trigger timestamps and so the same job ids, step by step
C4_SameJobIdsOnReschedule ==
    \A i \in 1..Len(calls), j \in 1..Len(calls) :
        \A k \in 1..Min(Len(calls[i].ids), Len(calls[j].ids)) :
            /\ calls[i].ids[k] = calls[j].ids[k]
            /\ calls[i].times[k] = calls[j].times[k]

\* C4 (amended): when the lead's last_contact is present and parsable, two
\* schedulings of the same (lead, plan) compute the same job id and the
\* same trigger timestamp for every step both of them reach, whenever they
\* are called; each id is built from the lead id, the step's template name
\* and the step's trigger timestamp only.
C4_SameJobIdsWhenLastContactParsable ==
    \A i \in 1..Len(calls), j \in 1..Len(calls) :
        subject.lead.last_contact.tag = "iso" =>
            \A k \in 1..Min(Len(calls[i].ids), Len(calls[j].ids)) :
                /\ calls[i].ids[k] = calls[j].ids[k]
                /\ calls[i].times[k] = calls[j].times[k]
                /\ calls[i].ids[k] =
                     JobId(subject.lead.id, subject.plan.steps[k].template, calls[i].times[k])

\* two schedulings on different days of a lead with a parsable last_contact
C4_Witness ==
    /\ Len(calls) >= 2
    /\ subject.lead.last_contact.tag = "iso"
    /\ calls[1].at # calls[2].at
    /\ calls[1].ids # <<>> /\ calls[2].ids # <<>>

\* C5: submitting a job whose id is already in the job store overwrites the
\* existing job: after re-scheduling the same lead and plan the store holds
\* one job per job id and the second scheduling call completes without error.
C5_RescheduleOverwrites ==
    /\ \A a \in jobs, b \in jobs : a.id = b.id => a = b
    /\ \A i \in 2..Len(calls) : Returned(calls[1].res) => Returned(calls[i].res)

-----------------------------------------------------------------------------
(* create_nurture_plan and the trigger handler _execute_followup *)

\* how many jobs a run fires
MaxFires == 2

NoPlan ==
    [isdict |-> FALSE, has_strategy |-> FALSE, has_steps |-> FALSE,
     strategy |-> "none", steps |-> <<>>]

CreateOut(res, js, ids, times, skip, plan) ==
    [res |-> res, jobs |-> js, ids |-> ids, times |-> times, skip |-> skip, plan |-> plan]

\* variant A: create_nurture_plan(lead); the except clause logs and re-raises
A_create_nurture_plan(js, lead, now, chroma, llm) ==
    LET sk == A_should_skip(lead, now)
    IN IF Raised(sk) THEN CreateOut(sk, js, <<>>, <<>>, sk, NoPlan)
       ELSE IF sk.val THEN CreateOut(Ret("skipped"), js, <<>>, <<>>, sk, NoPlan)
       ELSE LET plan == A_generate_plan(lead, chroma, llm).val
                out == A_schedule_plan(js, lead, plan, now)
            IN CreateOut(IF Raised(out.res) THEN out.res ELSE Ret("plan"),
                         out.jobs, out.ids, out.times, sk, plan)

\* variant B: create_nurture_plan(lead) generates and schedules; it does
\* not call _should_skip
B_create_nurture_plan(js, lead, now, store, ok, llm) ==
    LET plan == B_generate_plan(lead, store, ok, llm).val
        out == B_schedule_plan(js, lead, plan, now)
    IN CreateOut(IF Raised(out.res) THEN out.res ELSE Ret("plan"),
                 out.jobs, out.ids, out.times, Pending, plan)

\* variant A: _get_template(name) calls query without query_text; a hit is
\* the stored metadata (name, industry, is_html, trigger), which has no
\* 'content' key; a miss is the generic template
A_get_template(name, chroma) ==
    LET result == VectorDB_query(FALSE, chroma)
    IN IF Raised(result) THEN result
       ELSE IF result.val = <<>> THEN Ret([has_content |-> TRUE, is_html |-> FALSE])
       ELSE Ret(result.val[1].metadata)

\* variant A: _generate_message(lead, step)
A_generate_message(lead, step, chroma) ==
    IF ~step.has_template THEN Raise("KeyError")
    ELSE LET template == A_get_template(step.template, chroma)
         IN IF Raised(template) THEN template
            ELSE IF ~template.val.has_content THEN Raise("KeyError")
            ELSE Ret("message")

\* variant B: _generate_message calls self._get_template, which the class
\* does not define; the attribute is looked up before step['template_name']
\* is evaluated, so a step without that key ends the same way
B_get_template == Raise("AttributeError")

B_generate_message(lead, step) == B_get_template

\* agents/notifier/main.py: Notifier.deliver returns the transport's result
\* dict or, on any exception, a dict with status 'failed'; the e-mail
\* result carries the keys of tracking_data, lead_id among them
Notifier_deliver(method, transport) ==
    IF method \in {"email", "slack"} /\ transport = "ok"
    THEN [status |-> "sent", method |-> method, has_lead_id |-> (method = "email")]
    ELSE [status |-> "failed", method |-> "none", has_lead_id |-> FALSE]

\* the row a collection keeps for one upserted item
StoredRow(id, meta) ==
    [id |-> id, lead_id |-> meta.lead_id, opened |-> meta.opened,
     replied |-> meta.replied, content |-> meta.content]

\* chromadb's collection.upsert: a row whose id is stored already is
\* replaced where it stands, any other row is added at the end
RECURSIVE Collection_upsert(_, _, _)
Collection_upsert(store, metadatas, ids) ==
    IF ids = <<>> THEN store
    ELSE LET row == StoredRow(Head(ids), Head(metadatas))
             put == IF \E n \in 1..Len(store) : store[n].id = row.id
                    THEN [n \in 1..Len(store) |->
                             IF store[n].id = row.id THEN row ELSE store[n]]
                    ELSE Append(store, row)
         IN Collection_upsert(put, Tail(metadatas), Tail(ids))

\* chromadb's collection.delete(ids): the rows under these ids go, an id
\* that is not stored is ignored
Collection_delete(store, ids) ==
    SelectSeq(store, LAMBDA r : \A k \in 1..Len(ids) : ids[k] # r.id)

\* utils/storage.py: VectorDB.upsert(documents, metadatas, ids, collection).
\* A call without ids is a TypeError; an empty list or lists of unequal
\* length raise ValueError; a metadata dict without 'timestamp' reaches
\* datetime.now(), and the module never imports datetime: NameError
VectorDB_upsert(store, documents, metadatas, ids, has_ids, chroma_ok) ==
    IF ~has_ids THEN [res |-> Raise("TypeError"), store |-> store]
    ELSE IF documents = <<>> \/ metadatas = <<>> \/ ids = <<>>
    THEN [res |-> Raise("ValueError"), store |-> store]
    ELSE IF Len(documents) # Len(metadatas) \/ Len(metadatas) # Len(ids)
    THEN [res |-> Raise("ValueError"), store |-> store]
    ELSE IF \E n \in 1..Len(metadatas) : ~metadatas[n].has_timestamp
    THEN [res |-> Raise("NameError"), store |-> store]
    ELSE IF ~chroma_ok THEN [res |-> Raise("UpsertError"), store |-> store]
    ELSE [res |-> Ret(TRUE), store |-> Collection_upsert(store, metadatas, ids)]

\* utils/storage.py: VectorDB.delete(ids, collection)
VectorDB_delete(store, ids, chroma_ok) ==
    IF ~chroma_ok THEN [res |-> Raise("DeleteError"), store |-> store]
    ELSE [res |-> Ret(TRUE), store |-> Collection_delete(store, ids)]

\* variant A: self._log_interaction(lead_id=..., action=..., content=...,
\* **result) and, inside, vector_db.upsert without ids; the metadata dict
\* carries a 'timestamp'
A_log_interaction(store, lead_id, result, chroma_ok) ==
    IF result.has_lead_id THEN [res |-> Raise("TypeError"), store |-> store]
    ELSE VectorDB_upsert(store, <<txt_ok>>,
                         <<[lead_id |-> lead_id, opened |-> FALSE, replied |-> FALSE,
                            content |-> txt_ok, has_timestamp |-> TRUE]>>,
                         <<>>, FALSE, chroma_ok)

NoResult == [status |-> "none", method |-> "none", has_lead_id |-> FALSE]

\* variant C's registry holds a paused plan of this lead
PlanPausedFor(lead_id) ==
    \E i \in 1..Len(nurture_plans) :
        nurture_plans[i].lead_id = lead_id /\ nurture_plans[i].status = "paused"

\* one invocation of the handler: the job's pickled arguments, where the
\* invocation stands and what it has done
Invocation(job, now, status) ==
    [job_id |-> job.id, lead |-> job.lead, step |-> job.step, fired_at |-> now,
     status_at_fire |-> status, paused_at_fire |-> PlanPausedFor(job.lead.id),
     pc |-> "check", skip |-> Pending, result |-> NoResult,
     delivered |-> FALSE, logged |-> FALSE, outcome |-> "none"]

Finish(th, outcome) == [th EXCEPT !.pc = "done", !.outcome = outcome]

\* variant A: _execute_followup(lead, step), up to its next call out of the
\* process; every exception is caught and logged
A_execute_followup(th, now, store, chroma, transport, chroma_ok) ==
    CASE th.pc = "check" ->
           LET sk == A_should_skip(th.lead, now)
               checked == [th EXCEPT !.skip = sk]
           IN IF Raised(sk) THEN [th |-> Finish(checked, "failed"), store |-> store]
              ELSE IF sk.val THEN [th |-> Finish(checked, "skipped"), store |-> store]
              ELSE IF Raised(A_generate_message(th.lead, th.step, chroma))
              THEN [th |-> Finish(checked, "failed"), store |-> store]
              ELSE [th |-> [checked EXCEPT !.pc = "deliver"], store |-> store]
      [] th.pc = "deliver" ->
           LET result == Notifier_deliver(th.step.channel, transport)
           IN [th |-> [th EXCEPT !.pc = "log", !.result = result,
                                 !.delivered = (result.status = "sent")],
               store |-> store]
      [] OTHER ->
           LET logged == A_log_interaction(store, th.lead.id, th.result, chroma_ok)
           IN IF Raised(logged.res)
              THEN [th |-> Finish(th, "failed"), store |-> store]
              ELSE [th |-> Finish([th EXCEPT !.logged = TRUE], "sent"),
                    store |-> logged.store]

\* variant B: _execute_followup(lead, step), up to its next query of the
\* store; nothing is caught.  _should_skip queries the store twice, and the
\* store may change between the two queries.  The notifier module of this
\* variant does not compile, so a message that got as far as deliver would
\* end in an exception too
B_execute_followup(th, now, store, okEng, okNeg) ==
    CASE th.pc = "check" ->
           LET sk == B_should_skip_to_engagement(th.lead, now, store, okEng)
               checked == [th EXCEPT !.skip = sk]
           IN IF sk = Pending THEN [th |-> [th EXCEPT !.pc = "negative"], store |-> store]
              ELSE IF Raised(sk) THEN [th |-> Finish(checked, "raised"), store |-> store]
              ELSE [th |-> Finish(checked, "skipped"), store |-> store]
      [] th.pc = "negative" ->
           LET sk == B_should_skip_from_negative(th.lead, store, okNeg)
               checked == [th EXCEPT !.skip = sk]
           IN IF Raised(sk) THEN [th |-> Finish(checked, "raised"), store |-> store]
              ELSE IF sk.val THEN [th |-> Finish(checked, "skipped"), store |-> store]
              ELSE IF Raised(B_generate_message(th.lead, th.step))
              THEN [th |-> Finish(checked, "raised"), store |-> store]
              ELSE [th |-> [checked EXCEPT !.pc = "deliver"], store |-> store]
      [] OTHER -> [th |-> Finish(th, "raised"), store |-> store]

-----------------------------------------------------------------------------
(* Runs of one lead: plans are created, jobs fire, the lead may unsubscribe *)

NurtureLeads ==
    [id : {"L1"}, has_id : {TRUE}, status : {"new"},
     last_conversion : {Absent, DateVal("iso", 0 - 29)},
     last_contact : {Absent, DateVal("iso", 0 - 7), DateVal("iso", 0 - 6)}]

EngagedOnce ==
    <<[id |-> "i1", lead_id |-> "L1", opened |-> TRUE, replied |-> TRUE,
       content |-> txt_ok]>>

NurtureLLM ==
    {Raise("LLMError"),
     Ret(Plan("moderate", <<Step(0, "email", "t1"), Step(1, "slack", "t2")>>))}

TemplateHits ==
    ChromaOutcomes \cup {Ret(<<[metadata |-> [has_content |-> FALSE, is_html |-> FALSE]]>>)}

\* the lead dict a caller passes: the lead's fields with its current status
CurrentLead == [subject.lead EXCEPT !.status = leadStatus]

InitNurture ==
    /\ skipCall = NoCall /\ planCall = NoCall /\ funCall = NoCall /\ NoTracker
    /\ variant \in {"A", "B"}
    /\ clock = 0
    /\ \E lead \in NurtureLeads : subject = [lead |-> lead, plan |-> NoPlan]
    /\ leadStatus \in {"new", "unsubscribed"}
    /\ interactions = <<>>
    /\ jobs = {} /\ calls = <<>> /\ threads = <<>>

\* a call of variant B's create_nurture_plan that stands in the store query
\* of _generate_plan: it holds its lead argument and has done nothing yet
CreateWaiting == CreateOut(Pending, {}, <<>>, <<>>, Pending, NoPlan)

\* create_nurture_plan(lead) is called with the lead as it is now.  Variant
\* A gets to add_job without waiting on anything: its store query fails in
\* the call itself.  Variant B runs up to the store query of _generate_plan,
\* which it only leaves out for a lead without id
CreateNurturePlan ==
    /\ Len(calls) < MaxCalls
    /\ \E chroma \in ChromaOutcomes, llm \in NurtureLLM, ok \in BOOLEAN :
          IF variant = "B" /\ CurrentLead.has_id
          THEN /\ jobs' = jobs
               /\ calls' = Append(calls, CallRecord("create", clock, CurrentLead, Pending,
                                                    NoPlan, CreateWaiting))
          ELSE LET out == IF variant = "A"
                          THEN A_create_nurture_plan(jobs, CurrentLead, clock, chroma, llm)
                          ELSE B_create_nurture_plan(jobs, CurrentLead, clock,
                                                     interactions, ok, llm)
               IN /\ jobs' = out.jobs
                  /\ calls' = Append(calls, CallRecord("create", clock, CurrentLead,
                                                       out.skip, out.plan, out))
    /\ UNCHANGED <<callVars, trackerVars, variant, clock, subject, leadStatus, interactions, threads>>

\* a waiting call of variant B's create_nurture_plan goes on from its store
\* query: the plan is generated and scheduled for the lead the call was
\* given, on the store, the job store and the time as they are by now
CreateNurturePlanStep ==
    /\ \E c \in 1..Len(calls) :
          /\ calls[c].op = "create" /\ calls[c].res = Pending
          /\ \E llm \in NurtureLLM, ok \in BOOLEAN :
                LET out == B_create_nurture_plan(jobs, calls[c].lead, clock,
                                                 interactions, ok, llm)
                IN /\ jobs' = out.jobs
                   /\ calls' = [calls EXCEPT ![c] =
                          CallRecord("create", calls[c].at, calls[c].lead, out.skip,
                                     out.plan, out)]
    /\ UNCHANGED <<callVars, trackerVars, variant, clock, subject, leadStatus, interactions, threads>>

\* the lead's record is updated elsewhere: the lead unsubscribes
Unsubscribe ==
    /\ leadStatus = "new"
    /\ leadStatus' = "unsubscribed"
    /\ UNCHANGED <<callVars, trackerVars, variant, clock, subject, interactions, jobs, calls, threads>>

\* the scheduler runs a job whose run_date has come: the job leaves the
\* store and the handler is invoked with the job's stored arguments
FireJob(j) ==
    /\ Len(threads) < MaxFires
    /\ j \in jobs
    /\ j.run_date = clock
    /\ jobs' = jobs \ {j}
    /\ threads' = Append(threads, Invocation(j, clock, leadStatus))
    /\ UNCHANGED <<callVars, trackerVars, variant, clock, subject, leadStatus, interactions, calls>>

Fire == \E j \in jobs : FireJob(j)

\* a job found later than misfire_grace_time after its run_date is dropped
Misfire ==
    /\ \E j \in jobs :
          /\ j.run_date < clock
          /\ jobs' = jobs \ {j}
    /\ UNCHANGED <<callVars, trackerVars, variant, clock, subject, leadStatus, interactions, calls, threads>>

\* the answers the world can give to the call a step makes: all of them
\* when invocation t of variant v stands at pc, one that is not looked at
\* otherwise
AskedOf(t, v, pc, answers, unused) ==
    IF variant = v /\ threads[t].pc = pc THEN answers ELSE {unused}

\* a handler whose failure takes the lead's remaining jobs out of the store
HandlerStep_cancelling ==
    /\ \E t \in 1..Len(threads) :
          /\ threads[t].pc # "done"
          /\ \E chroma \in AskedOf(t, "A", "check", TemplateHits, Ret(<<>>)),
                transport \in AskedOf(t, "A", "deliver", {"ok", "error"}, "ok"),
                okA \in AskedOf(t, "A", "log", BOOLEAN, TRUE)
                        \cup AskedOf(t, "B", "check", BOOLEAN, TRUE),
                okB \in AskedOf(t, "B", "negative", BOOLEAN, TRUE) :
                LET out == IF variant = "A"
                           THEN A_execute_followup(threads[t], clock, interactions,
                                                   chroma, transport, okA)
                           ELSE B_execute_followup(threads[t], clock, interactions, okA, okB)
                IN /\ threads' = [threads EXCEPT ![t] = out.th]
                   /\ interactions' = out.store
                   /\ jobs' = IF out.th.outcome \in {"failed", "raised"}
                              THEN {j \in jobs : j.lead.id # out.th.lead.id}
                              ELSE jobs
    /\ UNCHANGED <<callVars, trackerVars, variant, clock, subject, leadStatus, calls>>

\* an invocation of the handler runs up to its next call out of the process
HandlerStep ==
    /\ \E t \in 1..Len(threads) :
          /\ threads[t].pc # "done"
          /\ \E chroma \in AskedOf(t, "A", "check", TemplateHits, Ret(<<>>)),
                transport \in AskedOf(t, "A", "deliver", {"ok", "error"}, "ok"),
                okA \in AskedOf(t, "A", "log", BOOLEAN, TRUE)
                        \cup AskedOf(t, "B", "check", BOOLEAN, TRUE),
                okB \in AskedOf(t, "B", "negative", BOOLEAN, TRUE) :
                LET out == IF variant = "A"
                           THEN A_execute_followup(threads[t], clock, interactions,
                                                   chroma, transport, okA)
                           ELSE B_execute_followup(threads[t], clock, interactions, okA, okB)
                IN /\ threads' = [threads EXCEPT ![t] = out.th]
                   /\ interactions' = out.store
    /\ UNCHANGED <<callVars, trackerVars, variant, clock, subject, leadStatus, jobs, calls>>

\* the calls of VectorDB.upsert and VectorDB.delete made on the interaction
\* collection from outside the nurturer
Meta(opened, replied, content, has_timestamp) ==
    [lead_id |-> "L1", opened |-> opened, replied |-> replied, content |-> content,
     has_timestamp |-> has_timestamp]

StoreWrites ==
    {[documents |-> <<txt_ok>>, metadatas |-> <<Meta(TRUE, TRUE, txt_ok, TRUE)>>,
      ids |-> <<"i1">>],
     [documents |-> <<txt_stop>>, metadatas |-> <<Meta(TRUE, TRUE, txt_stop, TRUE)>>,
      ids |-> <<"i1">>],
     [documents |-> <<txt_ok>>, metadatas |-> <<Meta(TRUE, TRUE, txt_ok, FALSE)>>,
      ids |-> <<"i1">>],
     [documents |-> <<txt_ok>>, metadatas |-> <<Meta(TRUE, TRUE, txt_ok, TRUE)>>,
      ids |-> <<"i1", "i2">>],
     [documents |-> <<>>, metadatas |-> <<>>, ids |-> <<>>]}

VectorDB_Upsert ==
    /\ \E w \in StoreWrites :
          interactions' =
              VectorDB_upsert(interactions, w.documents, w.metadatas, w.ids, TRUE, TRUE).store
    /\ UNCHANGED <<callVars, trackerVars, variant, clock, subject, leadStatus, jobs, calls, threads>>

VectorDB_Delete ==
    /\ \E ids \in {<<"i1">>, <<"i2">>} :
          interactions' = VectorDB_delete(interactions, ids, TRUE).store
    /\ UNCHANGED <<callVars, trackerVars, variant, clock, subject, leadStatus, jobs, calls, threads>>

\* another thread writes to the store between the two queries of a call of
\* variant B's _should_skip
SkipStoreWrite ==
    /\ skipCall.variant = "B" /\ skipCall.result = Pending /\ skipCall.pc = "negative"
    /\ \/ \E w \in StoreWrites :
             skipCall' = [skipCall EXCEPT !.store =
                 VectorDB_upsert(skipCall.store, w.documents, w.metadatas, w.ids,
                                 TRUE, TRUE).store]
       \/ \E ids \in {<<"i1">>, <<"i2">>} :
             skipCall' = [skipCall EXCEPT !.store =
                 VectorDB_delete(skipCall.store, ids, TRUE).store]
    /\ UNCHANGED <<planCall, nurtureVars, trackerVars>>

NextSkip == A_SkipCheck \/ B_SkipCheck \/ SkipStoreWrite

SpecSkip == InitSkip /\ [][NextSkip]_vars

NextNurture ==
    \/ Tick \/ CreateNurturePlan \/ CreateNurturePlanStep \/ Unsubscribe
    \/ Fire \/ Misfire \/ HandlerStep
    \/ VectorDB_Upsert \/ VectorDB_Delete

SpecNurture == InitNurture /\ [][NextNurture]_vars

-----------------------------------------------------------------------------
(* C2, C3, C10 *)

\* C2: when a scheduled step fires, should_skip is evaluated against the
\* lead's state at fire time: for a lead that is unsubscribed when the step
\* fires, the handler's skip check says skip and nothing is dispatched.
C2_SkipReevaluatedAtFireTime ==
    \A t \in 1..Len(threads) :
        (threads[t].pc = "done" /\ threads[t].status_at_fire = "unsubscribed") =>
            (threads[t].skip = Ret(TRUE) /\ ~threads[t].delivered)

SameJob(t) == {u \in 1..Len(threads) : threads[u].job_id = threads[t].job_id}

\* the invocation has passed its skip check: the handler is on its way to
\* generate the message, deliver it and log the event
Dispatching(u) == threads[u].skip = Ret(FALSE)

C3_NothingDelivered ==
    \A t \in 1..Len(threads) : ~threads[t].delivered /\ ~threads[t].logged

ShouldSkipOf(c) ==
    IF variant = "A" THEN A_should_skip(c.lead, c.at)
    ELSE B_should_skip(c.lead, c.at, interactions, TRUE, TRUE)

\* C10: create_nurture_plan for a lead for which should_skip is true returns
\* the skipped result, generates no plan and schedules no job; for a lead
\* for which it is false it generates a plan and schedules every step.
C10_CreateSkipsOrSchedulesAll ==
    \A i \in 1..Len(calls) :
        (calls[i].op = "create" /\ calls[i].res # Pending) =>
            /\ ShouldSkipOf(calls[i]) = Ret(TRUE) =>
                  /\ calls[i].res = Ret("skipped")
                  /\ calls[i].plan = NoPlan
                  /\ calls[i].ids = <<>>
            /\ ShouldSkipOf(calls[i]) = Ret(FALSE) =>
                  /\ calls[i].res = Ret("plan")
                  /\ calls[i].plan # NoPlan
                  /\ Len(calls[i].ids) = Len(calls[i].plan.steps)

-----------------------------------------------------------------------------
(* C11 *)

\* the seed the specification names: last_contact when it parses, else the
\* time of the call
SeedOf(c) ==
    IF c.lead.last_contact.tag = "iso" THEN c.lead.last_contact.t ELSE c.at

\* each trigger time is the previous one (the seed for the first step) plus
\* the step's day offset
Accumulated(c) ==
    \A k \in 1..Len(c.times) :
        c.times[k] = (IF k = 1 THEN SeedOf(c) ELSE c.times[k - 1])
                       + c.plan.steps[k].days_after

NonDecreasing(times) == \A k \in 2..Len(times) : times[k - 1] <= times[k]

\* C11 as stated: the trigger times of every scheduled plan are
\* non-decreasing in step order and accumulate the steps' day offsets
C11_TriggersNonDecreasing ==
    \A i \in 1..Len(calls) :
        Accumulated(calls[i]) /\ NonDecreasing(calls[i].times)

\* C11 (amended): the trigger times accumulate the steps' day offsets from
\* the seed, and they are non-decreasing in step order when no step of the
\* plan has a negative day offset.
C11_TriggersAccumulateOffsets ==
    \A i \in 1..Len(calls) :
        /\ Accumulated(calls[i])
        /\ (\A k \in 1..Len(calls[i].plan.steps) : calls[i].plan.steps[k].days_after >= 0)
              => NonDecreasing(calls[i].times)

\* a plan of two steps, the second a day after the first, has been scheduled
C11_Witness ==
    \E i \in 1..Len(calls) :
        /\ Returned(calls[i].res)
        /\ Len(calls[i].times) = 2
        /\ calls[i].plan.steps[1].days_after >= 0
        /\ calls[i].times[1] < calls[i].times[2]

-----------------------------------------------------------------------------
(* C12 *)

\* C12: scheduling seeds the accumulation with last_contact when it is
\* present and parsable and with the current time when it is absent, null
\* or unparsable, and in the latter cases it does not fail on the seed: the
\* first step of a non-empty plan gets its trigger time.
C12_SeedFallsBackToNow ==
    \A i \in 1..Len(calls) :
        /\ calls[i].times # <<>> =>
              calls[i].times[1] = SeedOf(calls[i]) + calls[i].plan.steps[1].days_after
        /\ (calls[i].lead.last_contact.tag \in {"absent", "none", "empty", "bad"}
              /\ calls[i].plan.steps # <<>>) =>
                 (calls[i].times # <<>> /\ calls[i].res \notin {Raise("TypeError"), Raise("ValueError")})

-----------------------------------------------------------------------------
(* C13, C14 *)

\* C13: every firing of a step that is not skipped ends with one
\* interaction event recorded for the lead, whether the delivery succeeded
\* or failed.
C13_FiringRecordsOneEvent ==
    \A t \in 1..Len(threads) :
        (threads[t].pc = "done" /\ threads[t].skip = Ret(FALSE)) => threads[t].logged

\* C14: the trigger handler never raises to the scheduler: whatever fails
\* in the skip check, template lookup, rendering, delivery or logging, the
\* invocation returns normally.
C14_HandlerNeverRaises ==
    \A t \in 1..Len(threads) :
        threads[t].pc = "done" => threads[t].outcome # "raised"

-----------------------------------------------------------------------------
(* Pausing and resuming plans (variant C's registry) while jobs fire *)

\* how many plans variant C's registry gets
MaxPlans == 2

\* generate_id("plan"): a fresh id for every plan
PlanId(n) == "plan_" \o ToString(n)

PlanIdsOf(plans) == {plans[i].id : i \in 1..Len(plans)}

SetStatus(plans, plan_id, status) ==
    [i \in 1..Len(plans) |->
        IF plans[i].id = plan_id THEN [plans[i] EXCEPT !.status = status] ELSE plans[i]]

\* a pause that pauses every plan of the registry
C_pause_every_plan(plans, plan_id) ==
    IF plan_id \notin PlanIdsOf(plans) THEN [res |-> Ret(FALSE), plans |-> plans]
    ELSE [res |-> Ret(TRUE),
          plans |-> [i \in 1..Len(plans) |-> [plans[i] EXCEPT !.status = "paused"]]]

\* variant C: pause_nurture_plan(plan_id)
C_pause_nurture_plan(plans, plan_id) ==
    IF plan_id \notin PlanIdsOf(plans) THEN [res |-> Ret(FALSE), plans |-> plans]
    ELSE [res |-> Ret(TRUE), plans |-> SetStatus(plans, plan_id, "paused")]

\* variant C: resume_nurture_plan(plan_id)
C_resume_nurture_plan(plans, plan_id) ==
    IF plan_id \notin PlanIdsOf(plans) THEN [res |-> Ret(FALSE), plans |-> plans]
    ELSE [res |-> Ret(TRUE), plans |-> SetStatus(plans, plan_id, "active")]

\* leads whose fallback step is due today
PauseLeads ==
    {l \in NurtureLeads : l.last_conversion = Absent
                           /\ l.last_contact = DateVal("iso", 0 - fallback_days_after)}

InitPause ==
    /\ skipCall = NoCall /\ planCall = NoCall /\ funCall = NoCall /\ NoTracker
    /\ variant \in {"A", "B"}
    /\ clock = 0
    /\ \E lead \in PauseLeads : subject = [lead |-> lead, plan |-> NoPlan]
    /\ leadStatus = "new"
    /\ interactions = IF variant = "A" THEN <<>> ELSE EngagedOnce
    /\ jobs = {} /\ calls = <<>> /\ threads = <<>>

\* variant C: create_nurture_plan(lead, templates); the plan enters the registry
C_RegisterPlanOf(lead_ids, template_lists) ==
    /\ Len(nurture_plans) < MaxPlans
    /\ \E lead_id \in lead_ids, templates \in template_lists :
          LET plan == C_create_nurture_plan([id |-> lead_id], templates, clock).val
              id == PlanId(Len(nurture_plans) + 1)
          IN nurture_plans' = Append(nurture_plans,
                 [id |-> id, lead_id |-> plan.lead_id, status |-> plan.status,
                  follow_ups |-> plan.follow_ups])
    /\ UNCHANGED <<callVars, nurtureVars, engagement_events, funCall, coreVars>>

C_RegisterPlan == C_RegisterPlanOf({"L1", "L2"}, {<<"t1">>, <<"t1", "t1">>})

PauseIds == {PlanId(n) : n \in 0..MaxPlans}

PauseCall(op, plan_id, out) ==
    [op |-> op, plan_id |-> plan_id, before |-> nurture_plans, after |-> out.plans,
     result |-> out.res]

C_PausePlan ==
    /\ \E plan_id \in PauseIds :
          LET out == C_pause_nurture_plan(nurture_plans, plan_id)
          IN /\ nurture_plans' = out.plans
             /\ funCall' = PauseCall("pause", plan_id, out)
    /\ UNCHANGED <<callVars, nurtureVars, engagement_events, coreVars>>

C_ResumePlan ==
    /\ \E plan_id \in PauseIds :
          LET out == C_resume_nurture_plan(nurture_plans, plan_id)
          IN /\ nurture_plans' = out.plans
             /\ funCall' = PauseCall("resume", plan_id, out)
    /\ UNCHANGED <<callVars, nurtureVars, engagement_events, coreVars>>

NextPause ==
    \/ CreateNurturePlan \/ CreateNurturePlanStep
    \/ C_RegisterPlan \/ C_PausePlan \/ C_ResumePlan \/ Fire \/ HandlerStep

SpecPause == InitPause /\ [][NextPause]_vars

\* variant C alone: plans are created, paused and resumed
InitRegistry ==
    /\ skipCall = NoCall /\ planCall = NoCall /\ funCall = NoCall
    /\ NoNurture /\ NoTracker

NextRegistry == C_RegisterPlan \/ C_PausePlan \/ C_ResumePlan

SpecRegistry == InitRegistry /\ [][NextRegistry]_vars

-----------------------------------------------------------------------------
(* C15, C16 *)

\* C15: while a plan is paused no step of it that has not fired yet is
\* dispatched: an invocation of the handler that finds its lead's plan
\* paused stops at its fire-time check and dispatches nothing.
C15_PausedPlanStepsHeld ==
    \A t \in 1..Len(threads) :
        (threads[t].pc = "done" /\ threads[t].paused_at_fire) =>
            (threads[t].skip # Ret(FALSE) /\ ~threads[t].delivered)

PauseTarget == IF funCall.op = "pause" THEN "paused" ELSE "active"

\* C16: pause_nurture_plan and resume_nurture_plan on an existing plan id
\* return True and set that plan's status to 'paused' and 'active'
\* respectively, changing no other plan and not the plan's follow-up list;
\* on an unknown plan id they return False and change no plan.
C16_PauseResumeFrame ==
    funCall # NoCall =>
        IF funCall.plan_id \in PlanIdsOf(funCall.before)
        THEN /\ funCall.result = Ret(TRUE)
             /\ Len(funCall.after) = Len(funCall.before)
             /\ \A i \in 1..Len(funCall.before) :
                   funCall.after[i] =
                      IF funCall.before[i].id = funCall.plan_id
                      THEN [funCall.before[i] EXCEPT !.status = PauseTarget]
                      ELSE funCall.before[i]
        ELSE /\ funCall.result = Ret(FALSE)
             /\ funCall.after = funCall.before

\* the second of two plans, each with follow-ups, is paused while the first
\* is active
C16_Witness ==
    /\ funCall # NoCall
    /\ funCall.op = "pause"
    /\ Len(funCall.before) = 2
    /\ funCall.plan_id = funCall.before[2].id
    /\ funCall.before[1].status = "active" /\ funCall.before[2].status = "active"
    /\ funCall.after[2].status = "paused"
    /\ Len(funCall.before[2].follow_ups) = 2

-----------------------------------------------------------------------------
(* Rendering: MessagePersonalizer.personalize_message (variant C) and      *)
(* _generate_message (variant A). A text is a sequence of characters.      *)

\* longest template text, in pieces (a word or one placeholder)
MaxTokens == 2

\* Python's None; an optional attribute is a text or <<NoneVal>>
NoneVal == "<None>"

\* lead.job_title or ""
OrEmpty(v) == IF v = <<NoneVal>> \/ v = <<>> THEN <<>> ELSE v

\* f"{{{var_name}}}"
Placeholder(name) == <<"{">> \o name \o <<"}">>

\* text.replace(old, new) for a non-empty old: the occurrences of old are
\* found from the left, without overlap, and new is not searched again
RECURSIVE str_replace(_, _, _)
str_replace(text, old, new) ==
    IF Len(text) < Len(old) THEN text
    ELSE IF SubSeq(text, 1, Len(old)) = old
    THEN new \o str_replace(SubSeq(text, Len(old) + 1, Len(text)), old, new)
    ELSE <<Head(text)>> \o str_replace(Tail(text), old, new)

CustomKeys(lead) == {lead.custom_fields[i].key : i \in 1..Len(lead.custom_fields)}

CustomValue(lead, key) ==
    lead.custom_fields[CHOOSE i \in 1..Len(lead.custom_fields) :
                          lead.custom_fields[i].key = key].value

\* the variables dict of personalize_message, in insertion order: the ten
\* named attributes, then the custom fields; a custom field named like an
\* attribute takes the attribute's place
C_named_variables(lead) ==
    <<[key |-> <<"f", "i", "r", "s", "t", "_", "n", "a", "m", "e">>, value |-> lead.first_name],
      [key |-> <<"l", "a", "s", "t", "_", "n", "a", "m", "e">>, value |-> lead.last_name],
      [key |-> <<"f", "u", "l", "l", "_", "n", "a", "m", "e">>,
       value |-> lead.first_name \o <<" ">> \o lead.last_name],
      [key |-> <<"e", "m", "a", "i", "l">>, value |-> lead.email],
      [key |-> <<"c", "o", "m", "p", "a", "n", "y", "_", "n", "a", "m", "e">>,
       value |-> lead.company_name],
      [key |-> <<"j", "o", "b", "_", "t", "i", "t", "l", "e">>,
       value |-> OrEmpty(lead.job_title)],
      [key |-> <<"i", "n", "d", "u", "s", "t", "r", "y">>, value |-> OrEmpty(lead.industry)],
      [key |-> <<"c", "o", "m", "p", "a", "n", "y", "_", "s", "i", "z", "e">>,
       value |-> OrEmpty(lead.company_size)],
      [key |-> <<"p", "h", "o", "n", "e">>, value |-> OrEmpty(lead.phone)],
      [key |-> <<"w", "e", "b", "s", "i", "t", "e">>, value |-> OrEmpty(lead.website)]>>

C_variables(lead) ==
    LET named == C_named_variables(lead)
        namedKeys == {named[i].key : i \in 1..Len(named)}
        overridden == [i \in 1..Len(named) |->
                          IF named[i].key \in CustomKeys(lead)
                          THEN [named[i] EXCEPT !.value = CustomValue(lead, named[i].key)]
                          ELSE named[i]]
    IN overridden \o SelectSeq(lead.custom_fields, LAMBDA f : f.key \notin namedKeys)

\* the for loop over variables.items(): one replace per variable whose
\* placeholder is in the text as it stands, in order
RECURSIVE C_replace_all(_, _)
C_replace_all(text, variables) ==
    IF variables = <<>> THEN text
    ELSE LET placeholder == Placeholder(Head(variables).key)
         IN C_replace_all(IF Contains(text, placeholder)
                          THEN str_replace(text, placeholder, Head(variables).value)
                          ELSE text,
                          Tail(variables))

\* variant C: personalize_message(template, lead)
C_personalize_message(template, lead) ==
    Ret([subject |-> C_replace_all(template.subject, C_variables(lead)),
         body |-> C_replace_all(template.body, C_variables(lead))])

k_first_name == <<"f", "i", "r", "s", "t", "_", "n", "a", "m", "e">>
k_last_name == <<"l", "a", "s", "t", "_", "n", "a", "m", "e">>
k_email == <<"e", "m", "a", "i", "l">>
k_plan == <<"p", "l", "a", "n">>
k_zzz == <<"z", "z", "z">>

\* the pieces template texts are made of: a word, placeholders of two
\* attributes, of a custom field and of nothing, and the two halves of a
\* placeholder that a substituted value can complete
RenderPieces ==
    {<<"H", "i", " ">>, Placeholder(k_first_name), Placeholder(k_email), Placeholder(k_plan),
     Placeholder(k_zzz), <<"{">>, <<"n", "a", "m", "e", "}">>}

RECURSIVE Concat(_)
Concat(pieces) == IF pieces = <<>> THEN <<>> ELSE Head(pieces) \o Concat(Tail(pieces))

RenderTexts == {Concat(q) : q \in SeqsUpTo(RenderPieces, MaxTokens)}

RenderTemplates ==
    [subject : {<<"R", "e">>, Placeholder(k_first_name)}, body : RenderTexts]

\* leads: a first name that is a plain word, one that holds the placeholder
\* of a later variable, and one that completes a placeholder; custom fields
\* that add a variable, override an attribute, or hold a placeholder
RenderLeads ==
    [first_name : {<<"A", "n", "n">>, Placeholder(k_email), <<"l", "a", "s", "t", "_">>},
     last_name : {<<"L", "e", "e">>}, email : {<<"a", "@", "x">>}, company_name : {<<"A", "c", "m", "e">>},
     job_title : {<<NoneVal>>}, industry : {<<NoneVal>>, <<"t", "e", "c", "h">>},
     company_size : {<<NoneVal>>}, phone : {<<NoneVal>>}, website : {<<NoneVal>>},
     custom_fields : {<<>>, <<[key |-> k_plan, value |-> <<"p", "r", "o">>]>>,
                      <<[key |-> k_first_name, value |-> <<"A", "n", "n", "i", "e">>]>>,
                      <<[key |-> k_plan, value |-> <<"x">> \o Placeholder(k_last_name)]>>}]

InitRender ==
    /\ skipCall = NoCall /\ planCall = NoCall
    /\ NoNurture /\ NoTracker
    /\ \/ \E template \in RenderTemplates, lead \in RenderLeads :
             funCall = [variant |-> "C", template |-> template, lead |-> lead,
                        result |-> Pending]
       \/ \E step \in {Step(7, "email", "general_followup"), Step(1, "email", "t1")},
             chroma \in TemplateHits :
             funCall = [variant |-> "A", lead |-> DefaultLead, step |-> step,
                        chroma |-> chroma, result |-> Pending]

\* variant C: personalize_message(template, lead)
C_Personalize ==
    /\ funCall.variant = "C" /\ funCall.result = Pending
    /\ funCall' = [funCall EXCEPT !.result =
                       C_personalize_message(funCall.template, funCall.lead)]
    /\ UNCHANGED <<callVars, nurtureVars, nurture_plans, engagement_events, coreVars>>

\* variant A: _generate_message(lead, step)
A_GenerateMessage ==
    /\ funCall.variant = "A" /\ funCall.result = Pending
    /\ funCall' = [funCall EXCEPT !.result =
                       A_generate_message(funCall.lead, funCall.step, funCall.chroma)]
    /\ UNCHANGED <<callVars, nurtureVars, nurture_plans, engagement_events, coreVars>>

NextRender == C_Personalize \/ A_GenerateMessage

SpecRender == InitRender /\ [][NextRender]_vars

-----------------------------------------------------------------------------
(* C17 *)

\* the value the lead has for the placeholder that starts the text, if any
KnownAt(text, lead) ==
    {n \in 1..Len(C_variables(lead)) :
        LET ph == Placeholder(C_variables(lead)[n].key)
        IN Len(text) >= Len(ph) /\ SubSeq(text, 1, Len(ph)) = ph}

\* the template with every placeholder the lead has a value for replaced by
\* that value and everything else verbatim
RECURSIVE Substituted(_, _)
Substituted(text, lead) ==
    IF text = <<>> THEN <<>>
    ELSE IF KnownAt(text, lead) # {}
    THEN LET n == CHOOSE n \in KnownAt(text, lead) : TRUE
             v == C_variables(lead)[n]
         IN v.value \o Substituted(SubSeq(text, Len(Placeholder(v.key)) + 1, Len(text)), lead)
    ELSE <<Head(text)>> \o Substituted(Tail(text), lead)

\* no value of the lead holds a brace
PlainValues(lead) ==
    \A n \in 1..Len(C_variables(lead)) :
        \A k \in 1..Len(C_variables(lead)[n].value) :
            C_variables(lead)[n].value[k] \notin {"{", "}"}

RenderedAsClaimed(text, out, lead) == out = Substituted(text, lead)

\* C17: rendering a template for a lead raises no error, replaces every
\* placeholder that names one of the lead's attributes or custom fields and
\* leaves every other placeholder verbatim; when all placeholders of the
\* template name lead attributes, the rendered subject and body contain no
\* placeholder token.  Stated for leads whose values hold no brace: the
\* output is the template with the known placeholders substituted.
C17_RenderReplacesKnownPlaceholders ==
    (funCall # NoCall /\ funCall.result # Pending) =>
        /\ Returned(funCall.result)
        /\ (funCall.variant = "C" /\ PlainValues(funCall.lead)) =>
              /\ RenderedAsClaimed(funCall.template.subject, funCall.result.val.subject,
                                   funCall.lead)
              /\ RenderedAsClaimed(funCall.template.body, funCall.result.val.body,
                                   funCall.lead)

-----------------------------------------------------------------------------
(* Variant C: EngagementTracker.  engagement_events is the tracker's list;   *)
(* every event carries the time it was tracked at (whole days).              *)

MaxEvents == 3
MaxTrackerClock == 32

escalation_replies == 3
escalation_meetings == 2
escalation_forms == 1
escalation_window_days == 30

\* days that pass between two calls of the tracker
TrackerTicks == {15, 16}

EngagementTypes == {"email_open", "email_reply", "form_submission", "meeting_scheduled"}

\* the (lead, event type) pairs track_engagement is called with
TrackInputs ==
    {[lead_id |-> "L1", event_type |-> ty] : ty \in EngagementTypes}
      \cup {[lead_id |-> "L2", event_type |-> "email_reply"]}

\* a tracker that puts the new event in front
C_track_engagement_front(events, lead_id, event_type, now) ==
    <<[lead_id |-> lead_id, event_type |-> event_type, timestamp |-> now]>> \o events

\* track_engagement(lead, event_type): the event is stamped datetime.now()
C_track_engagement(events, lead_id, event_type, now) ==
    Append(events, [lead_id |-> lead_id, event_type |-> event_type, timestamp |-> now])

\* a counter that ignores `since`
RECURSIVE C_get_engagement_count_ever(_, _, _, _)
C_get_engagement_count_ever(events, lead_id, event_type, since) ==
    IF events = <<>> THEN 0
    ELSE LET event == Head(events)
             rest == C_get_engagement_count_ever(Tail(events), lead_id, event_type, since)
         IN  IF event.lead_id # lead_id THEN rest
             ELSE IF event_type # {} /\ event.event_type \notin event_type THEN rest
             ELSE rest + 1

\* a counter that ignores whose event it is
RECURSIVE C_get_engagement_count_any_lead(_, _, _, _)
C_get_engagement_count_any_lead(events, lead_id, event_type, since) ==
    IF events = <<>> THEN 0
    ELSE LET event == Head(events)
             rest == C_get_engagement_count_any_lead(Tail(events), lead_id, event_type, since)
         IN  IF event_type # {} /\ event.event_type \notin event_type THEN rest
             ELSE IF since # {} /\ (\E s \in since : event.timestamp < s) THEN rest
             ELSE rest + 1

\* get_engagement_count(lead, event_type=None, since=None); an optional
\* argument is the empty set (None) or a singleton
RECURSIVE C_get_engagement_count(_, _, _, _)
C_get_engagement_count(events, lead_id, event_type, since) ==
    IF events = <<>> THEN 0
    ELSE LET event == Head(events)
             rest == C_get_engagement_count(Tail(events), lead_id, event_type, since)
         IN  IF event.lead_id # lead_id THEN rest
             ELSE IF event_type # {} /\ event.event_type \notin event_type THEN rest
             ELSE IF since # {} /\ (\E s \in since : event.timestamp < s) THEN rest
             ELSE rest + 1

\* check_escalation_criteria(lead)
C_check_escalation_criteria(events, lead_id, now) ==
    LET reply_count == C_get_engagement_count(events, lead_id, {"email_reply"},
                                              {now - escalation_window_days})
        meeting_count == C_get_engagement_count(events, lead_id, {"meeting_scheduled"},
                                                {now - escalation_window_days})
        form_count == C_get_engagement_count(events, lead_id, {"form_submission"}, {})
    IN  IF reply_count >= escalation_replies THEN Ret(TRUE)
        ELSE IF meeting_count >= escalation_meetings THEN Ret(TRUE)
        ELSE IF form_count >= escalation_forms THEN Ret(TRUE)
        ELSE Ret(FALSE)

InitTracker ==
    /\ skipCall = NoCall /\ planCall = NoCall /\ funCall = NoCall
    /\ NoNurture /\ NoTracker

C_TrackEngagementOf(inputs) ==
    /\ Len(engagement_events) < MaxEvents
    /\ \E inp \in inputs :
          engagement_events' =
              C_track_engagement(engagement_events, inp.lead_id, inp.event_type, clock)
    /\ UNCHANGED <<callVars, nurtureVars, nurture_plans, funCall, coreVars>>

C_TrackEngagement == C_TrackEngagementOf(TrackInputs)

C_CheckEscalation ==
    /\ \E lead_id \in {"L1", "L2"} :
          funCall' = [op |-> "check_escalation_criteria", lead_id |-> lead_id,
                      now |-> clock, seen |-> Len(engagement_events),
                      result |-> C_check_escalation_criteria(engagement_events,
                                                             lead_id, clock)]
    /\ UNCHANGED <<callVars, nurtureVars, nurture_plans, engagement_events, coreVars>>

TrackerTick ==
    /\ \E d \in TrackerTicks :
          /\ clock + d <= MaxTrackerClock
          /\ clock' = clock + d
    /\ UNCHANGED <<callVars, trackerVars, variant, subject, leadStatus, interactions,
                   jobs, calls, threads>>

NextTracker == C_TrackEngagement \/ C_CheckEscalation \/ TrackerTick

SpecTracker == InitTracker /\ [][NextTracker]_vars

-----------------------------------------------------------------------------
(* C18 *)

IsEscalationCheck == funCall # NoCall /\ funCall.op = "check_escalation_criteria"

\* the events of a lead of one type that a check saw, no older than `age` days
SeenEvents(c, event_type, age) ==
    {i \in 1..c.seen :
        /\ engagement_events[i].lead_id = c.lead_id
        /\ engagement_events[i].event_type = event_type
        /\ engagement_events[i].timestamp >= c.now - age}

\* C18: check_escalation_criteria(lead) is true if and only if the lead has
\* at least 3 email-reply events within the trailing 30 days, or at least 2
\* meeting-scheduled events within the trailing 30 days, or at least 1
\* form-submission event at any time.
C18_EscalationCriteria ==
    IsEscalationCheck =>
        funCall.result =
            Ret(\/ Cardinality(SeenEvents(funCall, "email_reply", 30)) >= 3
                \/ Cardinality(SeenEvents(funCall, "meeting_scheduled", 30)) >= 2
                \/ Cardinality(SeenEvents(funCall, "form_submission", funCall.now)) >= 1)

\* three replies, one of them older than 30 days when the check runs: false
C18_Witness ==
    /\ IsEscalationCheck
    /\ funCall.result = Ret(FALSE)
    /\ Cardinality(SeenEvents(funCall, "email_reply", funCall.now)) = 3
    /\ Cardinality(SeenEvents(funCall, "email_reply", 30)) = 2

-----------------------------------------------------------------------------
(* C19 *)

\* one of the lead's five most recent interaction contents holds a negative
\* keyword, compared case-insensitively
NegativeInLastFive(store, lead_id) ==
    LET mine == History(store, lead_id)
    IN  \E n \in 1..Len(mine) :
           /\ n <= 5
           /\ \E kw \in {kw_unsubscribe, kw_not_interested, kw_stop} :
                 Contains(LowerStr(mine[n].content), kw)

\* C19: if any of the lead's last 5 interaction contents contains
\* 'unsubscribe', 'not interested' or 'stop' (case-insensitive substring),
\* should_skip returns true whatever the lead's open and reply rates are.
C19_NegativeKeywordSkips ==
    (SkipDone /\ Returned(skipCall.result)
        /\ NegativeInLastFive(skipCall.store_at_call, skipCall.lead.id)
        /\ NegativeInLastFive(skipCall.store, skipCall.lead.id))
        => skipCall.result.val

-----------------------------------------------------------------------------
(* Runs of one multi-step plan: _schedule_plan puts one job per step into   *)
(* the store, and each job fires on its own day with the lead dict it was   *)
(* scheduled with.                                                          *)

\* converted 29 days before the plan is scheduled: inside the cooldown on the
\* day of the first step, outside it a day later
StepLeads ==
    [id : {"L1"}, has_id : {TRUE}, status : {"new"},
     last_conversion : {Absent, DateVal("iso", 1 - conversion_cooldown),
                        DateVal("dt", 1 - conversion_cooldown)},
     last_contact : {DateVal("iso", 0)}]

StepPlans ==
    {Plan("moderate", <<Step(0, "email", "t1"), Step(1, "slack", "t2")>>)}

InitSteps ==
    /\ skipCall = NoCall /\ planCall = NoCall /\ funCall = NoCall /\ NoTracker
    /\ variant \in {"A", "B"}
    /\ clock = 0
    /\ \E lead \in StepLeads, plan \in StepPlans : subject = [lead |-> lead, plan |-> plan]
    /\ leadStatus = "new"
    /\ interactions \in {<<>>, EngagedOnce}
    /\ variant = "A" => interactions = <<>>
    /\ jobs = {} /\ calls = <<>> /\ threads = <<>>

NextSteps ==
    Tick \/ SchedulePlanCall \/ SchedulePlanStep \/ Fire \/ Misfire \/ HandlerStep

SpecSteps == InitSteps /\ [][NextSteps]_vars

-----------------------------------------------------------------------------
(* C20 *)

\* invocation u belongs to a step that fires after the step of invocation t
LaterStep(t, u) ==
    /\ threads[u].lead.id = threads[t].lead.id
    /\ threads[u].job_id # threads[t].job_id
    /\ threads[u].fired_at > threads[t].fired_at

\* C20: once a step of a plan is skipped at fire time, every later step of
\* the same plan ends skipped as well: its handler does not get past the
\* skip decision and dispatches nothing, even if the skip condition no
\* longer holds when it fires.
C20_SkipHoldsForLaterSteps ==
    \A t \in 1..Len(threads), u \in 1..Len(threads) :
        (/\ threads[t].outcome = "skipped"
         /\ LaterStep(t, u)
         /\ threads[u].pc = "done")
            => (threads[u].outcome = "skipped" /\ ~threads[u].delivered)

-----------------------------------------------------------------------------
(* Variant B: _meets_engagement called on its own *)

InitEngage ==
    /\ skipCall = NoCall /\ planCall = NoCall
    /\ NoNurture /\ NoTracker
    /\ \E store \in Stores, ok \in BOOLEAN :
          funCall = [op |-> "meets_engagement", lead_id |-> "L1", store |-> store,
                     ok |-> ok, result |-> Pending]

\* variant B: _meets_engagement(lead_id)
B_MeetsEngagement ==
    /\ funCall.op = "meets_engagement" /\ funCall.result = Pending
    /\ funCall' = [funCall EXCEPT !.result =
                       B_meets_engagement(funCall.store, funCall.lead_id, funCall.ok)]
    /\ UNCHANGED <<callVars, nurtureVars, nurture_plans, engagement_events, coreVars>>

NextEngage == B_MeetsEngagement

SpecEngage == InitEngage /\ [][NextEngage]_vars

-----------------------------------------------------------------------------
(* C21 *)

EngageDone == funCall # NoCall /\ funCall.op = "meets_engagement" /\ funCall.result # Pending

\* the lead's interactions with the flag set
Flagged(mine, flag) ==
    IF flag = "opened" THEN SelectSeq(mine, LAMBDA i : i.opened)
    ELSE SelectSeq(mine, LAMBDA i : i.replied)

\* C21: the engagement-rate computation never divides by zero: with zero
\* sent events the lead is treated as not meeting the thresholds; with at
\* least one sent event each rate is the matching events divided by the
\* sent events, compared with its threshold.
C21_RateNeverDividesByZero ==
    EngageDone =>
        LET mine == History(funCall.store, funCall.lead_id)
        IN /\ funCall.result # Raise("ZeroDivisionError")
           /\ (funCall.ok /\ mine = <<>>) => funCall.result = Ret(FALSE)
           /\ (funCall.ok /\ mine # <<>>) =>
                 funCall.result =
                     Ret(/\ Len(Flagged(mine, "opened")) * 10 >= 3 * Len(mine)
                         /\ Len(Flagged(mine, "replied")) * 10 >= 1 * Len(mine))

\* the call that would have divided by zero: a working store, no history
C21_Witness ==
    /\ EngageDone /\ funCall.ok
    /\ History(funCall.store, funCall.lead_id) = <<>>
    /\ funCall.result = Ret(FALSE)

-----------------------------------------------------------------------------
(* C22 *)

Failed(t) == threads[t].outcome \in {"failed", "raised"}

\* C22: an error in one fired step is contained to that step: after a
\* handler invocation has failed, every later step of the same lead's plan
\* is still in the job store until its trigger time, and a step whose
\* trigger time has come can still fire.
C22_FailureContained ==
    \A t \in 1..Len(threads) :
        Failed(t) =>
            /\ \A c \in 1..Len(calls) : \A k \in 1..Len(calls[c].ids) :
                  (/\ Returned(calls[c].res)
                   /\ calls[c].lead.id = threads[t].lead.id
                   /\ calls[c].times[k] > clock)
                      => calls[c].ids[k] \in JobIds(jobs)
            /\ \A j \in jobs :
                  (/\ j.lead.id = threads[t].lead.id
                   /\ j.run_date = clock
                   /\ Len(threads) < MaxFires)
                      => ENABLED FireJob(j)

\* a step failed, and a later step of the same plan fired and was processed
C22_Witness ==
    \E t \in 1..Len(threads), u \in 1..Len(threads) :
        /\ Failed(t)
        /\ LaterStep(t, u)
        /\ threads[u].pc = "done"
        /\ threads[u].skip # Pending

-----------------------------------------------------------------------------
(* C23 *)

\* the template collection holds no template of the step's name
TemplateMissing == funCall.variant = "A" /\ funCall.chroma = Ret(<<>>)

\* C23: when a firing step names a template that is not in the template
\* store, the step falls back to a generic template and is still rendered:
\* the missing template never produces an error that aborts the step.
C23_MissingTemplateFallsBack ==
    (funCall # NoCall /\ TemplateMissing /\ funCall.result # Pending)
        => Returned(funCall.result)

-----------------------------------------------------------------------------
(* Variant C: SalesNurturer.handle_engagement_event.  A Lead object is kept *)
(* by its id; its notes are the times of the escalation notes appended.     *)

LeadIds == {"L1", "L2"}

LeadObj(status) == [status |-> status, notes |-> <<>>]

\* the status the event type alone gives
StatusAfterEvent(status, event_type) ==
    IF event_type = "email_reply" THEN "engaged"
    ELSE IF event_type = "meeting_scheduled" THEN "qualified"
    ELSE status

\* a handler that does not look at the escalation criteria
C_handle_engagement_event_no_escalation(events, lds, lead_id, event_type, now) ==
    [events |-> C_track_engagement(events, lead_id, event_type, now),
     leads |-> [lds EXCEPT ![lead_id].status = StatusAfterEvent(@, event_type)]]

\* handle_engagement_event(lead, event_type)
C_handle_engagement_event(events, lds, lead_id, event_type, now) ==
    LET tracked == C_track_engagement(events, lead_id, event_type, now)
        status == StatusAfterEvent(lds[lead_id].status, event_type)
        escalate == C_check_escalation_criteria(tracked, lead_id, now)
    IN [events |-> tracked,
        leads |-> IF escalate.val
                  THEN [lds EXCEPT ![lead_id] =
                            [status |-> "qualified", notes |-> Append(@.notes, now)]]
                  ELSE [lds EXCEPT ![lead_id].status = status]]

InitHandle ==
    /\ skipCall = NoCall /\ planCall = NoCall /\ funCall = NoCall
    /\ NoNurture
    /\ nurture_plans = <<>> /\ engagement_events = <<>>
    /\ notifier = NoCall /\ sent_messages = <<>>
    /\ \E st \in {"new", "converted"} :
          leads = [id \in LeadIds |-> IF id = "L1" THEN LeadObj(st) ELSE LeadObj("new")]

C_HandleEngagementEventOf(inputs) ==
    /\ Len(engagement_events) < MaxEvents
    /\ \E inp \in inputs :
          LET out == C_handle_engagement_event(engagement_events, leads, inp.lead_id,
                                               inp.event_type, clock)
          IN /\ engagement_events' = out.events
             /\ leads' = out.leads
             /\ funCall' = [op |-> "handle_engagement_event", lead_id |-> inp.lead_id,
                            event_type |-> inp.event_type, now |-> clock,
                            seen |-> Len(out.events), before |-> leads,
                            after |-> out.leads]
    /\ UNCHANGED <<callVars, nurtureVars, nurture_plans, notifier, sent_messages>>

C_HandleEngagementEvent == C_HandleEngagementEventOf(TrackInputs)

NextHandle == C_HandleEngagementEvent \/ TrackerTick

SpecHandle == InitHandle /\ [][NextHandle]_vars

-----------------------------------------------------------------------------
(* C24 *)

IsHandled == funCall # NoCall /\ funCall.op = "handle_engagement_event"

\* the escalation criteria on the events a call saw, its own included
EscalationHolds(c) ==
    \/ Cardinality(SeenEvents(c, "email_reply", 30)) >= 3
    \/ Cardinality(SeenEvents(c, "meeting_scheduled", 30)) >= 2
    \/ Cardinality(SeenEvents(c, "form_submission", c.now)) >= 1

\* C24: handle_engagement_event appends exactly one engagement event for the
\* lead and then sets the lead's status: QUALIFIED with an escalation note
\* appended whenever the escalation criteria hold after the event, otherwise
\* ENGAGED for an email reply, QUALIFIED for a meeting-scheduled event and
\* the old status for any other event type.
C24_HandleSetsStatus ==
    IsHandled =>
        LET old == funCall.before[funCall.lead_id]
            new == funCall.after[funCall.lead_id]
        IN /\ engagement_events[funCall.seen] =
                  [lead_id |-> funCall.lead_id, event_type |-> funCall.event_type,
                   timestamp |-> funCall.now]
           /\ IF EscalationHolds(funCall)
              THEN /\ new.status = "qualified"
                   /\ new.notes = Append(old.notes, funCall.now)
              ELSE /\ new.notes = old.notes
                   /\ new.status =
                         CASE funCall.event_type = "email_reply" -> "engaged"
                           [] funCall.event_type = "meeting_scheduled" -> "qualified"
                           [] OTHER -> old.status

\* the third recent reply: escalation wins over ENGAGED
C24_Witness ==
    /\ IsHandled
    /\ funCall.event_type = "email_reply"
    /\ Cardinality(SeenEvents(funCall, "email_reply", 30)) = 3
    /\ funCall.after[funCall.lead_id].status = "qualified"
    /\ Len(funCall.after[funCall.lead_id].notes) = 1

-----------------------------------------------------------------------------
(* Variant C: create_nurture_plan called at different times *)

TemplateIdLists == {<<>>, <<"t1">>, <<"t1", "t2">>, <<"t2", "t1">>}

InitCreate ==
    /\ skipCall = NoCall /\ planCall = NoCall /\ funCall = NoCall
    /\ NoNurture /\ NoTracker

\* create_nurture_plan(lead, templates): the plan is stored and returned
C_CreatePlan ==
    /\ Len(nurture_plans) < MaxPlans
    /\ \E lead_id \in LeadIds, templates \in TemplateIdLists :
          LET plan == C_create_nurture_plan([id |-> lead_id], templates, clock).val
              stored == [id |-> PlanId(Len(nurture_plans) + 1), lead_id |-> plan.lead_id,
                         status |-> plan.status, follow_ups |-> plan.follow_ups]
          IN /\ nurture_plans' = Append(nurture_plans, stored)
             /\ funCall' = [op |-> "create_nurture_plan", lead_id |-> lead_id,
                            templates |-> templates, now |-> clock, result |-> stored]
    /\ UNCHANGED <<callVars, nurtureVars, engagement_events, coreVars>>

NextCreate == C_CreatePlan \/ TrackerTick

SpecCreate == InitCreate /\ [][NextCreate]_vars

-----------------------------------------------------------------------------
(* C25 *)

IsCreated == funCall # NoCall /\ funCall.op = "create_nurture_plan"

\* C25: create_nurture_plan(lead, templates) returns a plan with status
\* 'active' for that lead holding exactly one follow-up per template in
\* template order, the i-th follow-up (from 1) scheduled 3 * i days after
\* creation so that scheduled times strictly increase, and stores the plan
\* in nurture_plans under its own id.
C25_CreatePlanShape ==
    IsCreated =>
        LET plan == funCall.result
            n == Len(funCall.templates)
        IN /\ plan.status = "active"
           /\ plan.lead_id = funCall.lead_id
           /\ Len(plan.follow_ups) = n
           /\ \A i \in 1..n :
                 /\ plan.follow_ups[i].template = funCall.templates[i]
                 /\ plan.follow_ups[i].scheduled_time = funCall.now + 3 * i
           /\ \A i \in 1..n : \A j \in 1..n :
                 i < j => plan.follow_ups[i].scheduled_time
                              < plan.follow_ups[j].scheduled_time
           /\ Cardinality({k \in 1..Len(nurture_plans) :
                              nurture_plans[k].id = plan.id}) = 1
           /\ \E k \in 1..Len(nurture_plans) : nurture_plans[k] = plan

\* a plan of two templates created after time has passed
C25_Witness ==
    /\ IsCreated
    /\ funCall.now > 0
    /\ funCall.templates = <<"t2", "t1">>
    /\ Len(funCall.result.follow_ups) = 2
    /\ Len(nurture_plans) = 2

-----------------------------------------------------------------------------
(* Variant C notifiers (notifier/notifier.py).  A message id is the class   *)
(* prefix, the send time to the second and hash(destination) % 10000; the   *)
(* str hash is fixed per process and differs between processes.  clock      *)
(* counts seconds here.                                                     *)

Recipients == {"a@x", "b@x"}
SlackChannels == {NoneVal, "", "#sales"}
\* the values hash(s) % 10000 takes on the recipients, in this model
HashResidues == {17, 4242}

NotifierClasses == {"email", "slack", "log"}

MessageId(class, now, residue) ==
    class \o "_" \o ToString(now) \o "_" \o ToString(residue)

\* dict assignment d[key] = value
DictSet(d, key, value) ==
    [k \in (DOMAIN d) \cup {key} |-> IF k = key THEN value ELSE d[k]]

SentStatus(class) == IF class = "log" THEN "logged" ELSE "sent"

\* bool(channel) on the optional channel argument
ChannelTruthy(channel) == channel \notin {NoneVal, ""}

\* send_message(recipient, subject, body, channel=None).  The clock is read
\* twice: now for the message id, later for sent_at.
C_send_message(nt, sent, recipient, channel, now, later) ==
    LET destination == IF nt.class = "slack" /\ ChannelTruthy(channel) THEN channel
                       ELSE recipient
        message_id == MessageId(nt.class, now, nt.hash[destination])
    IN [sent |-> DictSet(sent, message_id,
                         [recipient |-> destination, status |-> SentStatus(nt.class),
                          sent_at |-> later]),
        destination |-> destination,
        res |-> [success |-> TRUE, message_id |-> message_id,
                 status |-> SentStatus(nt.class)]]

\* check_delivery_status(message_id)
C_check_delivery_status(nt, sent, message_id) ==
    IF message_id \notin DOMAIN sent
    THEN [success |-> FALSE, error |-> "not found"]
    ELSE [success |-> TRUE, message_id |-> message_id,
          status |-> IF nt.class = "log" THEN "logged" ELSE sent[message_id].status,
          recipient |-> sent[message_id].recipient,
          sent_at |-> sent[message_id].sent_at]

InitNotify ==
    /\ skipCall = NoCall /\ planCall = NoCall /\ funCall = NoCall
    /\ variant = "none" /\ clock = 0 /\ subject = NoCall /\ leadStatus = "new"
    /\ interactions = <<>> /\ jobs = {} /\ calls = <<>> /\ threads = <<>>
    /\ nurture_plans = <<>> /\ engagement_events = <<>> /\ leads = <<>>
    /\ \E class \in NotifierClasses,
          hash \in [Recipients \cup {c \in SlackChannels : ChannelTruthy(c)}
                      -> HashResidues] :
          notifier = [class |-> class, hash |-> hash]
    /\ sent_messages = <<>>

C_SendMessage ==
    /\ Len(calls) < MaxCalls
    /\ \E recipient \in Recipients, channel \in SlackChannels,
          later \in {t \in {clock, clock + 1} : t <= MaxNow} :
          LET out == C_send_message(notifier, sent_messages, recipient, channel,
                                    clock, later)
          IN /\ sent_messages' = out.sent
             /\ clock' = later
             /\ calls' = Append(calls, [op |-> "send_message", at |-> clock,
                                        recipient |-> out.destination,
                                        id |-> out.res.message_id,
                                        status |-> out.res.status])
    /\ UNCHANGED <<callVars, variant, subject, leadStatus, interactions, jobs,
                   threads, nurture_plans, engagement_events, funCall, leads, notifier>>

C_CheckDelivery ==
    /\ \E message_id \in {calls[k].id : k \in 1..Len(calls)} \cup {"email_0_0"} :
          funCall' = [op |-> "check_delivery_status", message_id |-> message_id,
                      seen |-> Len(calls),
                      result |-> C_check_delivery_status(notifier, sent_messages,
                                                         message_id)]
    /\ UNCHANGED <<callVars, nurtureVars, nurture_plans, engagement_events, coreVars>>

NextNotify == C_SendMessage \/ C_CheckDelivery \/ Tick

SpecNotify == InitNotify /\ [][NextNotify]_vars

-----------------------------------------------------------------------------
(* C26 *)

IsDeliveryCheck == funCall # NoCall /\ funCall.op = "check_delivery_status"

\* the sends, up to the check, that returned the id the check asks about
SendsOf(c) == {k \in 1..c.seen : calls[k].id = c.message_id}

\* C26: after any sequence of sends, check_delivery_status of a message id
\* returned by send_message returns success with the recipient and status
\* of the send that returned that id; for an id never returned by
\* send_message it returns success false.
C26_StatusOfReturnedId ==
    IsDeliveryCheck =>
        IF SendsOf(funCall) = {}
        THEN ~funCall.result.success
        ELSE /\ funCall.result.success
             /\ \A k \in SendsOf(funCall) :
                   /\ funCall.result.recipient = calls[k].recipient
                   /\ funCall.result.status = calls[k].status

-----------------------------------------------------------------------------
(* Variant C: CSVLeadParser (lead_parser/lead_parser.py).  A cell of the    *)
(* file is a character sequence, empty for an empty cell.  pandas.read_csv  *)
(* turns an empty cell into the float NaN, and NaN is truthy in Python.     *)

MaxRows == 2

Str(chars) == [type |-> "str", val |-> chars]
NaN == [type |-> "float", val |-> <<>>]
List(items) == [type |-> "list", val |-> items]

\* bool(value) on a cell value: NaN is truthy, '' and [] are not
CellTruthy(v) == v.type = "float" \/ v.val # <<>>

RequiredFields == <<"first_name", "last_name", "email", "company_name">>

\* the standard fields with the header names accepted for each, in order
field_mappings ==
    << [standard |-> "first_name",
        variations |-> <<"first_name", "firstname", "fname", "first">>],
       [standard |-> "last_name",
        variations |-> <<"last_name", "lastname", "lname", "last">>],
       [standard |-> "email",
        variations |-> <<"email", "email_address", "emailaddress">>],
       [standard |-> "company_name",
        variations |-> <<"company_name", "company", "organization", "org">>],
       [standard |-> "job_title",
        variations |-> <<"job_title", "title", "position", "role">>],
       [standard |-> "industry", variations |-> <<"industry", "sector">>],
       [standard |-> "company_size",
        variations |-> <<"company_size", "size", "employees", "employee_count">>],
       [standard |-> "phone",
        variations |-> <<"phone", "phone_number", "phonenumber", "telephone">>],
       [standard |-> "website", variations |-> <<"website", "web", "url", "site">>],
       [standard |-> "pain_points",
        variations |-> <<"pain_points", "painpoints", "challenges", "problems">>],
       [standard |-> "interests",
        variations |-> <<"interests", "topics", "focus_areas">>],
       [standard |-> "notes",
        variations |-> <<"notes", "comments", "additional_info">>] >>

email_ok == <<"j", "@", "x", ".", "c">>
email_no_at == <<"j", ".", "c">>

\* rows under the standard headers
CsvRows ==
    [first_name : {<<"J">>, <<>>}, last_name : {<<"D">>},
     email : {email_ok, email_no_at, <<>>}, company_name : {<<"A">>, <<>>}]

\* rows under other accepted headers, with a list column and a column that
\* is no standard field
VariationRows ==
    [firstname : {<<"J">>}, lastname : {<<"D">>}, email_address : {email_ok, <<>>},
     company : {<<"A">>}, challenges : {<<"a", ",", " ", "b">>, <<>>},
     plan : {<<"p", "r", "o">>, <<>>}]

\* rows of a file that has two columns for the first name
TwoNameRows ==
    [first_name : {<<"J">>, <<>>}, fname : {<<"K">>}, last_name : {<<"D">>},
     email : {email_ok}, company_name : {<<"A">>}]

\* a source is a file that cannot be read, or the rows of a readable file;
\* the rows of one file have the same columns
Unreadable == [readable |-> FALSE, rows |-> <<>>]
CsvSources ==
    {Unreadable} \cup
    {[readable |-> TRUE, rows |-> r] :
        r \in SeqsUpTo(CsvRows, MaxRows) \cup SeqsUpTo(VariationRows, MaxRows)
              \cup SeqsUpTo(TwoNameRows, MaxRows)}

\* pd.read_csv(...).to_dict(orient="records") on one row of text cells
pd_record(row) ==
    [f \in DOMAIN row |-> IF row[f] = <<>> THEN NaN ELSE Str(row[f])]

\* text.split(sep) for a one-character separator
RECURSIVE str_split(_, _)
str_split(text, sep) ==
    IF \A i \in 1..Len(text) : text[i] # sep THEN <<text>>
    ELSE LET i == CHOOSE j \in 1..Len(text) :
                      text[j] = sep /\ \A k \in 1..(j - 1) : text[k] # sep
         IN <<SubSeq(text, 1, i - 1)>> \o str_split(SubSeq(text, i + 1, Len(text)), sep)

\* text.strip(), the blank being the only whitespace of the model's texts
RECURSIVE str_strip(_)
str_strip(text) ==
    IF text = <<>> THEN text
    ELSE IF Head(text) = " " THEN str_strip(Tail(text))
    ELSE IF text[Len(text)] = " " THEN str_strip(SubSeq(text, 1, Len(text) - 1))
    ELSE text

\* the position of the first variation that is a key of raw_data with a
\* truthy value, 0 when there is none
FirstTruthy(raw_data, variations) ==
    LET hits == {k \in 1..Len(variations) :
                    /\ variations[k] \in DOMAIN raw_data
                    /\ CellTruthy(raw_data[variations[k]])}
    IN IF hits = {} THEN 0 ELSE CHOOSE k \in hits : \A h \in hits : k <= h

\* transform_to_standard_format(raw_data): each standard field takes the
\* value of its first truthy variation, a text under pain_points or interests
\* is split at the commas, and the truthy values under keys that are no
\* variation go to custom_fields
C_transform_to_standard_format(raw_data) ==
    LET entry(f) == CHOOSE m \in 1..Len(field_mappings) : field_mappings[m].standard = f
        found == {field_mappings[m].standard : m \in
                     {n \in 1..Len(field_mappings) :
                         FirstTruthy(raw_data, field_mappings[n].variations) # 0}}
        value(f) ==
            LET variations == field_mappings[entry(f)].variations
                v == raw_data[variations[FirstTruthy(raw_data, variations)]]
            IN IF f \in {"pain_points", "interests"} /\ v.type = "str"
               THEN List([i \in 1..Len(str_split(v.val, ",")) |->
                             str_strip(str_split(v.val, ",")[i])])
               ELSE v
        is_standard(key) ==
            \E m \in 1..Len(field_mappings) :
               \E k \in 1..Len(field_mappings[m].variations) :
                  field_mappings[m].variations[k] = key
        custom_fields ==
            [key \in {k \in DOMAIN raw_data : ~is_standard(k) /\ CellTruthy(raw_data[k])}
                |-> raw_data[key]]
    IN [f \in found \cup {"custom_fields"} |->
           IF f = "custom_fields" THEN custom_fields ELSE value(f)]

\* validate_data(lead_data)
C_validate_data(lead_data) ==
    IF \E n \in 1..Len(RequiredFields) :
          \/ RequiredFields[n] \notin DOMAIN lead_data
          \/ ~CellTruthy(lead_data[RequiredFields[n]])
    THEN Ret(FALSE)
    ELSE IF lead_data["email"].type = "float" THEN Raise("TypeError")
    ELSE IF ~Contains(lead_data["email"].val, <<"@">>)
            \/ ~Contains(lead_data["email"].val, <<".">>)
    THEN Ret(FALSE)
    ELSE Ret(TRUE)

\* d.get(key, default)
DictGet(d, key, default) == IF key \in DOMAIN d THEN d[key] ELSE default

\* the Lead built from a standardized row; its id, its dates and its other
\* optional attributes are left out
CsvLead(d) ==
    [first_name |-> DictGet(d, "first_name", Str(<<>>)),
     last_name |-> DictGet(d, "last_name", Str(<<>>)),
     email |-> DictGet(d, "email", Str(<<>>)),
     company_name |-> DictGet(d, "company_name", Str(<<>>)), source |-> "csv",
     pain_points |-> DictGet(d, "pain_points", List(<<>>)),
     custom_fields |-> DictGet(d, "custom_fields", <<>>)]

\* the loop over the rows of parse_source
RECURSIVE C_parse_rows(_, _)
C_parse_rows(raw_leads, parsed) ==
    IF raw_leads = <<>> THEN Ret(parsed)
    ELSE LET standardized == C_transform_to_standard_format(Head(raw_leads))
             valid == C_validate_data(standardized)
         IN IF Raised(valid) THEN valid
            ELSE IF ~valid.val THEN C_parse_rows(Tail(raw_leads), parsed)
            ELSE C_parse_rows(Tail(raw_leads), Append(parsed, CsvLead(standardized)))

\* CSVLeadParser.parse_source(source_path)
C_parse_source(source) ==
    IF ~source.readable THEN Ret(<<>>)
    ELSE LET out == C_parse_rows([i \in 1..Len(source.rows) |->
                                      pd_record(source.rows[i])], <<>>)
         IN IF Raised(out) THEN Ret(<<>>) ELSE out

InitParse ==
    /\ skipCall = NoCall /\ planCall = NoCall
    /\ NoNurture /\ NoTracker
    /\ \E source \in CsvSources :
          funCall = [op |-> "parse_source", source |-> source, result |-> Pending]

C_ParseSource ==
    /\ funCall.op = "parse_source" /\ funCall.result = Pending
    /\ funCall' = [funCall EXCEPT !.result = C_parse_source(funCall.source)]
    /\ UNCHANGED <<callVars, nurtureVars, nurture_plans, engagement_events, coreVars>>

NextParse == C_ParseSource

SpecParse == InitParse /\ [][NextParse]_vars

-----------------------------------------------------------------------------
(* C27 *)

\* the text a row holds for a standard field: its first non-empty cell under
\* the headers accepted for the field, the empty text when there is none
Named(row, f) ==
    LET variations == field_mappings[CHOOSE m \in 1..Len(field_mappings) :
                                        field_mappings[m].standard = f].variations
        filled == {k \in 1..Len(variations) :
                      variations[k] \in DOMAIN row /\ row[variations[k]] # <<>>}
    IN IF filled = {} THEN <<>>
       ELSE row[variations[CHOOSE k \in filled : \A h \in filled : k <= h]]

\* a row with non-empty required fields and an e-mail holding '@' and '.'
RowValid(row) ==
    /\ \A n \in 1..Len(RequiredFields) : Named(row, RequiredFields[n]) # <<>>
    /\ Contains(Named(row, "email"), <<"@">>)
    /\ Contains(Named(row, "email"), <<".">>)

LeadOfRow(row) ==
    [first_name |-> Str(Named(row, "first_name")),
     last_name |-> Str(Named(row, "last_name")),
     email |-> Str(Named(row, "email")),
     company_name |-> Str(Named(row, "company_name")),
     source |-> "csv"]

RECURSIVE LeadsOfValidRows(_)
LeadsOfValidRows(rows) ==
    IF rows = <<>> THEN <<>>
    ELSE IF RowValid(Head(rows))
    THEN <<LeadOfRow(Head(rows))>> \o LeadsOfValidRows(Tail(rows))
    ELSE LeadsOfValidRows(Tail(rows))

\* the attributes of the returned leads that the statement is about
Claimed(res) ==
    IF Raised(res) THEN res
    ELSE Ret([i \in 1..Len(res.val) |->
                 [first_name |-> res.val[i].first_name,
                  last_name |-> res.val[i].last_name,
                  email |-> res.val[i].email,
                  company_name |-> res.val[i].company_name,
                  source |-> res.val[i].source]])

\* C27: parse_source returns exactly one Lead, with source CSV, per input
\* row that has non-empty first_name, last_name, email and company_name and
\* an email containing '@' and '.', in row order; an invalid row is skipped
\* without affecting the other rows, and an unreadable source yields the
\* empty list instead of an exception.
C27_OneLeadPerValidRow ==
    (funCall # NoCall /\ funCall.op = "parse_source" /\ funCall.result # Pending) =>
        Claimed(funCall.result) =
            Ret(IF ~funCall.source.readable THEN <<>>
                ELSE LeadsOfValidRows(funCall.source.rows))

-----------------------------------------------------------------------------
(* Variant C: the operations of EngagementTracker and SalesNurturer on one  *)
(* object, in any order                                                     *)

CoreInputs ==
    {[lead_id |-> "L1", event_type |-> "email_reply"],
     [lead_id |-> "L2", event_type |-> "form_submission"]}

NextCore ==
    \/ C_TrackEngagementOf(CoreInputs)
    \/ C_HandleEngagementEventOf(CoreInputs)
    \/ C_CheckEscalation
    \/ C_RegisterPlanOf({"L1"}, {<<"t1">>})
    \/ C_PausePlan
    \/ C_ResumePlan

SpecCore == InitHandle /\ [][NextCore]_vars

-----------------------------------------------------------------------------
(* C28 *)

\* C28: the engagement event log is append-only: a step of any operation
\* either leaves the log as it is or adds exactly one event at its end; no
\* existing event is removed, reordered or modified.
C28_EventLogAppendOnly ==
    [][\/ engagement_events' = engagement_events
       \/ /\ Len(engagement_events') = Len(engagement_events) + 1
          /\ SubSeq(engagement_events', 1, Len(engagement_events)) = engagement_events
      ]_vars

\* events of both leads are in the log, a plan is paused and a query has run
C28_Witness ==
    /\ Len(engagement_events) >= 2
    /\ engagement_events[1].lead_id # engagement_events[2].lead_id
    /\ \E k \in 1..Len(nurture_plans) : nurture_plans[k].status = "paused"
    /\ funCall # NoCall /\ funCall.op = "check_escalation_criteria"

-----------------------------------------------------------------------------
(* C29 *)

\* what the tracker answers about a lead on a given log
AnswersFor(events, lead_id, now) ==
    [replies |-> C_get_engagement_count(events, lead_id, {"email_reply"},
                                        {now - escalation_window_days}),
     all |-> C_get_engagement_count(events, lead_id, {}, {}),
     escalate |-> C_check_escalation_criteria(events, lead_id, now)]

\* C29: engagement counting is per lead: a step that records an event for
\* one lead changes no other lead's counts, escalation result or status.
C29_CountsArePerLead ==
    [][\A other \in LeadIds :
          (/\ engagement_events' # engagement_events
           /\ engagement_events'[Len(engagement_events')].lead_id # other)
              => /\ leads'[other] = leads[other]
                 /\ AnswersFor(engagement_events', other, clock)
                        = AnswersFor(engagement_events, other, clock)
      ]_vars

\* L1 has two recent replies and is not escalated although L2 replied too
C29_Witness ==
    /\ IsHandled
    /\ Cardinality({i \in 1..Len(engagement_events) :
                       engagement_events[i].event_type = "email_reply"}) = 3
    /\ engagement_events[3].lead_id = "L2"
    /\ leads["L1"].status = "engaged"
    /\ leads["L1"].notes = <<>>

-----------------------------------------------------------------------------
(* C30 *)

\* C30: handle_engagement_event never moves a lead backwards in its
\* lifecycle: a lead whose status has reached QUALIFIED or CONVERTED is
\* never set back to ENGAGED by a later event.
C30_NoLifecycleRegression ==
    IsHandled =>
        (funCall.before[funCall.lead_id].status \in {"qualified", "converted"}
            => funCall.after[funCall.lead_id].status # "engaged")

====
